---- MODULE Spec2Model ----
(***************************************************************************)
(* Model of the block-mapped memory bus of the vm emulator                 *)
(* (src/src/memory.rs): the MemoryController with its block table and      *)
(* mapping vector, and the RAM and ROM devices behind it.                  *)
(*                                                                         *)
(* Device memory is a byte array that starts zero-filled; it is kept here   *)
(* as the finite function of its non-zero cells, so memory[a] of the code   *)
(* is Cell(memory, a).  Addresses, block numbers and sizes keep the values *)
(* of the code (64 KiB, 16 blocks of 4 KiB).                               *)
(***************************************************************************)
EXTENDS Integers, Sequences, FiniteSets, TLC

\* ------------------------------------------------------------------------
\* Program constants
\* ------------------------------------------------------------------------
ADDRESS_BUS_WIDTH == 16
ADDRESS_SPACE == 2 ^ ADDRESS_BUS_WIDTH
MAP_BLOCK_SIZE == 4096
MAP_BLOCKS == ADDRESS_SPACE \div MAP_BLOCK_SIZE

\* ------------------------------------------------------------------------
\* Bounds of the model
\* ------------------------------------------------------------------------
\* most mappings held at once
MaxMappings == 3
\* most non-zero bytes the bus writes may leave in the mapped devices
MaxDirty == 2
\* process calls made after the registers were last set
MaxSteps == 4
\* arguments <<first_block, blocks>> of map_device: single blocks, ranges that
\* partly overlap, and ranges that leave the block table (15 + 2, 16 + 1)
MapArgs == {<<0, 1>>, <<0, 2>>, <<1, 1>>, <<1, 2>>, <<15, 1>>, <<15, 2>>,
            <<16, 1>>}
\* devices handed to map_device: <<kind, capacity>>; the controller never
\* looks at either, and the devices of both kinds are on the bus in Setups
MapDevices == {<<"RAM", MAP_BLOCK_SIZE>>}
\* handles tried by unmap_device and get_device, valid or not
Handles == 0 .. MaxMappings
\* device-local offsets and bytes of poke_bytes
PokeOffsets == {0}
PokeBytes == {90}
\* bus addresses: both sides of the block 0/1, 1/2 and 7/8 borders, and the
\* reset vector at the top
Addrs == {0, 1, 4095, 4096, 8191, 8192, 32767, 32768, 65534, 65535}
Bytes == {0, 90}
Words == {0, 4660}

\* ------------------------------------------------------------------------
\* State
\* ------------------------------------------------------------------------
VARIABLES
    memory_controller,  \* [blocks, mappings] of MemoryController
    covered,            \* device id -> the blocks its map_device call covered
    last,               \* the last call: [op, args, ret]
    aborted,            \* TRUE once a call has panicked
    cpu,                \* the fields of CPU other than memory_controller
    overflow_checks,    \* TRUE in a build whose integer overflow panics
    ticks               \* process calls since the registers were last set

vars == <<memory_controller, covered, last, aborted,
          cpu, overflow_checks, ticks>>
cpu_vars == <<cpu, overflow_checks, ticks>>

CPU_new ==
    [enable |-> FALSE, waiting_for_interrupt |-> FALSE,
     program_counter |-> 0, stack_pointer |-> 0, index_x |-> 0,
     index_y |-> 0, status |-> 0, a |-> 0, b |-> 0, c |-> 0, d |-> 0]

\* Option<usize>
None == << >>
Some(i) == <<i>>

\* Result<T, String>
Ok(v) == [ok |-> TRUE, val |-> v, err |-> "", at |-> 0]
Err(msg, n) == [ok |-> FALSE, val |-> 0, err |-> msg, at |-> n]
ERR_ALREADY_MAPPED == "Block {} is already mapped to another device"
ERR_OUT_OF_BOUNDS == "Index {} is out-of-bounds"

\* ------------------------------------------------------------------------
\* Byte arrays (Box<[u8]>), zero where not listed
\* ------------------------------------------------------------------------
ZeroMemory == [a \in {} |-> 0]
Cell(memory, a) == IF a \in DOMAIN memory THEN memory[a] ELSE 0
Store(memory, a, v) ==
    IF v = 0
    THEN [x \in (DOMAIN memory) \ {a} |-> memory[x]]
    ELSE [x \in (DOMAIN memory) \cup {a} |-> IF x = a THEN v ELSE memory[x]]

\* memory[address + i] = bytes[i] for every i, in order
RECURSIVE PokeLoop(_, _, _, _)
PokeLoop(memory, address, bytes, i) ==
    IF i > Len(bytes) THEN memory
    ELSE PokeLoop(Store(memory, address + i - 1, bytes[i]), address, bytes, i + 1)

\* ------------------------------------------------------------------------
\* RAM
\* ------------------------------------------------------------------------
RAM_new(id, capacity) ==
    [id |-> id, kind |-> "RAM", capacity |-> capacity, memory |-> ZeroMemory]

RAM_read_8(dev, address) ==
    IF address >= dev.capacity THEN 0 ELSE Cell(dev.memory, address)

RAM_read_16(dev, address) ==
    LET lo == IF address < dev.capacity THEN Cell(dev.memory, address) ELSE 0
        hi == IF address + 1 < dev.capacity
              THEN Cell(dev.memory, address + 1) ELSE 0
    IN  lo + 256 * hi

RAM_write_8(dev, address, value) ==
    IF address >= dev.capacity THEN dev
    ELSE [dev EXCEPT !.memory = Store(@, address, value)]

\* RAM_write_16 that stores the high byte first
RAM_write_16_big_endian(dev, address, value) ==
    LET m1 == IF address < dev.capacity
              THEN Store(dev.memory, address, value \div 256) ELSE dev.memory
        m2 == IF address + 1 < dev.capacity
              THEN Store(m1, address + 1, value % 256) ELSE m1
    IN  [dev EXCEPT !.memory = m2]

RAM_write_16(dev, address, value) ==
    LET m1 == IF address < dev.capacity
              THEN Store(dev.memory, address, value % 256) ELSE dev.memory
        m2 == IF address + 1 < dev.capacity
              THEN Store(m1, address + 1, value \div 256) ELSE m1
    IN  [dev EXCEPT !.memory = m2]

RAM_reset(dev) == [dev EXCEPT !.memory = ZeroMemory]

\* panics when a byte falls past the end of the array
RAM_poke_bytes(dev, address, bytes) ==
    IF address + Len(bytes) > dev.capacity
    THEN [dev |-> dev, panic |-> TRUE]
    ELSE [dev |-> [dev EXCEPT !.memory = PokeLoop(@, address, bytes, 1)],
          panic |-> FALSE]

\* ------------------------------------------------------------------------
\* ROM
\* ------------------------------------------------------------------------
ROM_new(id, capacity) ==
    [id |-> id, kind |-> "ROM", capacity |-> capacity, memory |-> ZeroMemory]

ROM_read_8(dev, address) ==
    IF address >= dev.capacity THEN 0 ELSE Cell(dev.memory, address)

ROM_read_16(dev, address) ==
    LET lo == IF address < dev.capacity THEN Cell(dev.memory, address) ELSE 0
        hi == IF address + 1 < dev.capacity
              THEN Cell(dev.memory, address + 1) ELSE 0
    IN  lo + 256 * hi

\* ROM_write_8 that stores the byte as a RAM does
ROM_write_8_stores(dev, address, value) ==
    IF address >= dev.capacity THEN dev
    ELSE [dev EXCEPT !.memory = Store(@, address, value)]

ROM_write_8(dev, address, value) == dev

\* ROM_write_16 that stores the word as a RAM does
ROM_write_16_stores(dev, address, value) ==
    LET m1 == IF address < dev.capacity
              THEN Store(dev.memory, address, value % 256) ELSE dev.memory
        m2 == IF address + 1 < dev.capacity
              THEN Store(m1, address + 1, value \div 256) ELSE m1
    IN  [dev EXCEPT !.memory = m2]

ROM_write_16(dev, address, value) == dev

ROM_reset(dev) == dev

ROM_poke_bytes(dev, address, bytes) ==
    IF address + Len(bytes) > dev.capacity
    THEN [dev |-> dev, panic |-> TRUE]
    ELSE [dev |-> [dev EXCEPT !.memory = PokeLoop(@, address, bytes, 1)],
          panic |-> FALSE]

\* ------------------------------------------------------------------------
\* dyn MappedDevice: dispatch on the concrete device
\* ------------------------------------------------------------------------
Device_read_8(dev, address) ==
    IF dev.kind = "RAM" THEN RAM_read_8(dev, address)
    ELSE ROM_read_8(dev, address)

Device_read_16(dev, address) ==
    IF dev.kind = "RAM" THEN RAM_read_16(dev, address)
    ELSE ROM_read_16(dev, address)

Device_write_8(dev, address, value) ==
    IF dev.kind = "RAM" THEN RAM_write_8(dev, address, value)
    ELSE ROM_write_8(dev, address, value)

Device_write_16(dev, address, value) ==
    IF dev.kind = "RAM" THEN RAM_write_16(dev, address, value)
    ELSE ROM_write_16(dev, address, value)

Device_reset(dev) ==
    IF dev.kind = "RAM" THEN RAM_reset(dev) ELSE ROM_reset(dev)

Device_poke_bytes(dev, address, bytes) ==
    IF dev.kind = "RAM" THEN RAM_poke_bytes(dev, address, bytes)
    ELSE ROM_poke_bytes(dev, address, bytes)

\* ------------------------------------------------------------------------
\* MemoryController
\* ------------------------------------------------------------------------
MemoryController_new ==
    [blocks |-> [b \in 0 .. (MAP_BLOCKS - 1) |-> None], mappings |-> << >>]

Min(S) == CHOOSE x \in S : \A y \in S : x <= y

\* Vec::remove in place of swap_remove: the tail shifts down
swap_remove_shift(v, i) ==
    [k \in 1 .. (Len(v) - 1) |-> IF k <= i THEN v[k] ELSE v[k + 1]]

\* Vec::swap_remove at the 0-based index i
swap_remove(v, i) ==
    LET n == Len(v)
    IN  IF i = n - 1 THEN SubSeq(v, 1, n - 1)
        ELSE [SubSeq(v, 1, n - 1) EXCEPT ![i + 1] = v[n]]

\* The outcome of a call: the controller afterwards, the value returned,
\* and whether the call panicked (an index past the end of an array).
Outcome(mc, ret, panic) == [mc |-> mc, ret |-> ret, panic |-> panic]
PANIC_INDEX == "index out of bounds"

\* map_device that looks only at the first block of the range
map_device_first_only(mc, first_block, blocks, device) ==
    LET range == first_block .. (first_block + blocks - 1)
        mapping == [offset |-> first_block * MAP_BLOCK_SIZE, device |-> device]
        mappings2 == Append(mc.mappings, mapping)
        mapping_index == Len(mappings2) - 1
    IN  IF first_block < MAP_BLOCKS /\ mc.blocks[first_block] # None
        THEN Outcome(mc, Err(ERR_ALREADY_MAPPED, first_block), FALSE)
        ELSE IF first_block + blocks > MAP_BLOCKS
        THEN Outcome(mc, Err(PANIC_INDEX, MAP_BLOCKS), TRUE)
        ELSE Outcome([blocks |-> [b \in 0 .. (MAP_BLOCKS - 1) |->
                                    IF b \in range THEN Some(mapping_index)
                                    ELSE mc.blocks[b]],
                      mappings |-> mappings2],
                     Ok(mapping_index), FALSE)

\* map_device that returns the length of the vector as the handle
map_device_len_index(mc, first_block, blocks, device) ==
    LET range == first_block .. (first_block + blocks - 1)
        occupied == {b \in range : b < MAP_BLOCKS /\ mc.blocks[b] # None}
        beyond == {b \in range : b >= MAP_BLOCKS}
        mapping == [offset |-> first_block * MAP_BLOCK_SIZE, device |-> device]
        mappings2 == Append(mc.mappings, mapping)
        mapping_index == Len(mappings2) - 1
    IN  IF occupied # {}
        THEN Outcome(mc, Err(ERR_ALREADY_MAPPED, Min(occupied)), FALSE)
        ELSE IF beyond # {}
        THEN Outcome(mc, Err(PANIC_INDEX, Min(beyond)), TRUE)
        ELSE Outcome([blocks |-> [b \in 0 .. (MAP_BLOCKS - 1) |->
                                    IF b \in range THEN Some(mapping_index)
                                    ELSE mc.blocks[b]],
                      mappings |-> mappings2],
                     Ok(Len(mappings2)), FALSE)

map_device(mc, first_block, blocks, device) ==
    LET range == first_block .. (first_block + blocks - 1)
        \* the first loop stops at the first block that is occupied, or
        \* panics at the first block past the table, whichever comes first
        occupied == {b \in range : b < MAP_BLOCKS /\ mc.blocks[b] # None}
        beyond == {b \in range : b >= MAP_BLOCKS}
        mapping == [offset |-> first_block * MAP_BLOCK_SIZE, device |-> device]
        mappings2 == Append(mc.mappings, mapping)
        mapping_index == Len(mappings2) - 1
    IN  IF occupied # {}
        THEN Outcome(mc, Err(ERR_ALREADY_MAPPED, Min(occupied)), FALSE)
        ELSE IF beyond # {}
        THEN Outcome(mc, Err(PANIC_INDEX, Min(beyond)), TRUE)
        ELSE Outcome([blocks |-> [b \in 0 .. (MAP_BLOCKS - 1) |->
                                    IF b \in range THEN Some(mapping_index)
                                    ELSE mc.blocks[b]],
                      mappings |-> mappings2],
                     Ok(mapping_index), FALSE)

\* unmap_device that leaves the slots of the moved mapping as they were
unmap_device_no_relink(mc, mapping_index) ==
    IF mapping_index >= Len(mc.mappings)
    THEN Outcome(mc, Err(ERR_OUT_OF_BOUNDS, mapping_index), FALSE)
    ELSE Outcome([blocks |-> [b \in 0 .. (MAP_BLOCKS - 1) |->
                                IF mc.blocks[b] = Some(mapping_index)
                                THEN None ELSE mc.blocks[b]],
                  mappings |-> swap_remove(mc.mappings, mapping_index)],
                 Ok(0), FALSE)

\* unmap_device that rewrites the slots of the moved mapping before it
\* empties the slots of the removed one
unmap_device_relink_first(mc, mapping_index) ==
    IF mapping_index >= Len(mc.mappings)
    THEN Outcome(mc, Err(ERR_OUT_OF_BOUNDS, mapping_index), FALSE)
    ELSE LET mappings2 == swap_remove(mc.mappings, mapping_index)
             last_mapping_index == Len(mappings2)
             relink(block) ==
                 LET b1 == IF block = Some(last_mapping_index)
                           THEN Some(mapping_index) ELSE block
                 IN  IF b1 = Some(mapping_index) THEN None ELSE b1
         IN  Outcome([blocks |-> [b \in 0 .. (MAP_BLOCKS - 1) |->
                                    relink(mc.blocks[b])],
                      mappings |-> mappings2],
                     Ok(0), FALSE)

\* unmap_device that accepts the handle one past the last mapping
unmap_device_off_by_one(mc, mapping_index) ==
    IF mapping_index > Len(mc.mappings)
    THEN Outcome(mc, Err(ERR_OUT_OF_BOUNDS, mapping_index), FALSE)
    ELSE IF mapping_index = Len(mc.mappings)
    THEN Outcome(mc, Err(PANIC_INDEX, mapping_index), TRUE)
    ELSE LET mappings2 == swap_remove(mc.mappings, mapping_index)
             last_mapping_index == Len(mappings2)
             relink(block) ==
                 LET b1 == IF block = Some(mapping_index) THEN None ELSE block
                 IN  IF b1 = Some(last_mapping_index)
                     THEN Some(mapping_index) ELSE b1
         IN  Outcome([blocks |-> [b \in 0 .. (MAP_BLOCKS - 1) |->
                                    relink(mc.blocks[b])],
                      mappings |-> mappings2],
                     Ok(0), FALSE)

unmap_device(mc, mapping_index) ==
    IF mapping_index >= Len(mc.mappings)
    THEN Outcome(mc, Err(ERR_OUT_OF_BOUNDS, mapping_index), FALSE)
    ELSE LET mappings2 == swap_remove(mc.mappings, mapping_index)
             last_mapping_index == Len(mappings2)
             relink(block) ==
                 LET b1 == IF block = Some(mapping_index) THEN None ELSE block
                 IN  IF b1 = Some(last_mapping_index)
                     THEN Some(mapping_index) ELSE b1
         IN  Outcome([blocks |-> [b \in 0 .. (MAP_BLOCKS - 1) |->
                                    relink(mc.blocks[b])],
                      mappings |-> mappings2],
                     Ok(0), FALSE)

get_device(mc, mapping_index) ==
    IF mapping_index >= Len(mc.mappings)
    THEN Err(ERR_OUT_OF_BOUNDS, mapping_index)
    ELSE Ok(mc.mappings[mapping_index + 1].device)

get_device_mut(mc, mapping_index) ==
    IF mapping_index >= Len(mc.mappings)
    THEN Err(ERR_OUT_OF_BOUNDS, mapping_index)
    ELSE Ok(mc.mappings[mapping_index + 1].device)

\* self.blocks[address / MAP_BLOCK_SIZE]
block_of(mc, address) == mc.blocks[address \div MAP_BLOCK_SIZE]

\* A bus access panics when it indexes past the block table or the mapping
\* vector, or when address - offset goes below zero (a checked build).
bus_panics(mc, address) ==
    \/ address \div MAP_BLOCK_SIZE >= MAP_BLOCKS
    \/ /\ block_of(mc, address) # None
       /\ LET mapping_index == block_of(mc, address)[1]
          IN  \/ mapping_index >= Len(mc.mappings)
              \/ address < mc.mappings[mapping_index + 1].offset

\* read_8 that reads 0xFF from an empty block
read_8_open_bus(mc, address) ==
    IF block_of(mc, address) # None
    THEN LET mapping_index == block_of(mc, address)[1]
             translated_address ==
                 address - mc.mappings[mapping_index + 1].offset
         IN  Device_read_8(mc.mappings[mapping_index + 1].device,
                           translated_address)
    ELSE 255

read_8(mc, address) ==
    IF block_of(mc, address) # None
    THEN LET mapping_index == block_of(mc, address)[1]
             translated_address ==
                 address - mc.mappings[mapping_index + 1].offset
         IN  Device_read_8(mc.mappings[mapping_index + 1].device,
                           translated_address)
    ELSE 0

read_16(mc, address) ==
    IF block_of(mc, address) # None
    THEN LET mapping_index == block_of(mc, address)[1]
             translated_address ==
                 address - mc.mappings[mapping_index + 1].offset
         IN  Device_read_16(mc.mappings[mapping_index + 1].device,
                            translated_address)
    ELSE 0

\* write_8 that hands the bus address to the device untranslated
write_8_untranslated(mc, address, value) ==
    IF block_of(mc, address) # None
    THEN LET mapping_index == block_of(mc, address)[1]
         IN  [mc EXCEPT !.mappings[mapping_index + 1].device =
                            Device_write_8(@, address, value)]
    ELSE mc

write_8(mc, address, value) ==
    IF block_of(mc, address) # None
    THEN LET mapping_index == block_of(mc, address)[1]
             translated_address ==
                 address - mc.mappings[mapping_index + 1].offset
         IN  [mc EXCEPT !.mappings[mapping_index + 1].device =
                            Device_write_8(@, translated_address, value)]
    ELSE mc

write_16(mc, address, value) ==
    IF block_of(mc, address) # None
    THEN LET mapping_index == block_of(mc, address)[1]
             translated_address ==
                 address - mc.mappings[mapping_index + 1].offset
         IN  [mc EXCEPT !.mappings[mapping_index + 1].device =
                            Device_write_16(@, translated_address, value)]
    ELSE mc

reset(mc) ==
    [mc EXCEPT !.mappings =
        [i \in 1 .. Len(mc.mappings) |->
            [mc.mappings[i] EXCEPT !.device = Device_reset(@)]]]

\* ------------------------------------------------------------------------
\* The harness: calls on the controller, one action per call
\* ------------------------------------------------------------------------
Call(op, args, ret) == [op |-> op, args |-> args, ret |-> ret]

\* ids of the devices the controller owns
LiveIds(mc) == {mc.mappings[i].device.id : i \in 1 .. Len(mc.mappings)}

\* a device the controller does not own yet (a fresh Box)
NewId(mc) == Min({i \in 1 .. (Len(mc.mappings) + 1) : i \notin LiveIds(mc)})

\* non-zero bytes held by the mapped RAM devices
RECURSIVE DirtyFrom(_, _)
DirtyFrom(mc, i) ==
    IF i > Len(mc.mappings) THEN 0
    ELSE (IF mc.mappings[i].device.kind = "RAM"
          THEN Cardinality(DOMAIN mc.mappings[i].device.memory) ELSE 0)
         + DirtyFrom(mc, i + 1)
Dirty(mc) == DirtyFrom(mc, 1)

Init ==
    /\ memory_controller = MemoryController_new
    /\ covered = [i \in {} |-> {}]
    /\ last = Call("new", << >>, Ok(0))
    /\ aborted = FALSE
    /\ cpu = CPU_new
    /\ overflow_checks = TRUE
    /\ ticks = 0

NewDevice(id, kind, capacity) ==
    IF kind = "RAM" THEN RAM_new(id, capacity) ELSE ROM_new(id, capacity)

\* covered after a map_device call that returned ret
CoveredAfterMap(cov, id, first_block, blocks, ret) ==
    IF ret.ok
    THEN [i \in (DOMAIN cov) \cup {id} |->
            IF i = id THEN first_block .. (first_block + blocks - 1)
            ELSE cov[i]]
    ELSE cov

Map(first_block, blocks, kind, capacity) ==
    /\ ~aborted
    /\ UNCHANGED cpu_vars
    /\ Len(memory_controller.mappings) < MaxMappings
    /\ LET id == NewId(memory_controller)
           r == map_device(memory_controller, first_block, blocks,
                           NewDevice(id, kind, capacity))
       IN  /\ memory_controller' = r.mc
           /\ aborted' = r.panic
           /\ last' = Call("map_device", <<first_block, blocks, id>>, r.ret)
           /\ covered' = CoveredAfterMap(covered, id, first_block, blocks, r.ret)

Unmap(mapping_index) ==
    /\ ~aborted
    /\ UNCHANGED cpu_vars
    /\ LET r == unmap_device(memory_controller, mapping_index)
       IN  /\ memory_controller' = r.mc
           /\ aborted' = r.panic
           /\ last' = Call("unmap_device", <<mapping_index>>, r.ret)
           /\ covered' = [i \in LiveIds(r.mc) |-> covered[i]]

Get(mapping_index) ==
    /\ ~aborted
    /\ UNCHANGED cpu_vars
    /\ last' = Call("get_device", <<mapping_index>>,
                    get_device(memory_controller, mapping_index))
    /\ UNCHANGED <<memory_controller, covered, aborted>>

\* get_device_mut(mapping_index), then poke_bytes on the device it returned;
\* the harness does nothing when the handle is refused
Poke(mapping_index, address, bytes) ==
    /\ ~aborted
    /\ UNCHANGED cpu_vars
    /\ LET g == get_device_mut(memory_controller, mapping_index)
       IN  IF ~g.ok
           THEN /\ last' = Call("poke_bytes",
                                <<mapping_index, address, bytes>>, g)
                /\ UNCHANGED <<memory_controller, aborted>>
           ELSE LET r == Device_poke_bytes(g.val, address, bytes)
                IN  /\ memory_controller' =
                          [memory_controller EXCEPT
                              !.mappings[mapping_index + 1].device = r.dev]
                    /\ aborted' = r.panic
                    /\ last' = Call("poke_bytes",
                                    <<mapping_index, address, bytes>>,
                                    IF r.panic THEN Err(PANIC_INDEX, address)
                                    ELSE Ok(0))
    /\ UNCHANGED covered

Read8(address) ==
    /\ ~aborted
    /\ UNCHANGED cpu_vars
    /\ aborted' = bus_panics(memory_controller, address)
    /\ last' = Call("read_8", <<address>>,
                    IF bus_panics(memory_controller, address)
                    THEN Err(PANIC_INDEX, address)
                    ELSE Ok(read_8(memory_controller, address)))
    /\ UNCHANGED <<memory_controller, covered>>

Read16(address) ==
    /\ ~aborted
    /\ UNCHANGED cpu_vars
    /\ aborted' = bus_panics(memory_controller, address)
    /\ last' = Call("read_16", <<address>>,
                    IF bus_panics(memory_controller, address)
                    THEN Err(PANIC_INDEX, address)
                    ELSE Ok(read_16(memory_controller, address)))
    /\ UNCHANGED <<memory_controller, covered>>

Write8(address, value) ==
    /\ ~aborted
    /\ UNCHANGED cpu_vars
    /\ IF bus_panics(memory_controller, address)
       THEN /\ aborted' = TRUE
            /\ last' = Call("write_8", <<address, value>>,
                            Err(PANIC_INDEX, address))
            /\ UNCHANGED memory_controller
       ELSE /\ memory_controller' = write_8(memory_controller, address, value)
            /\ Dirty(memory_controller') <= MaxDirty
            /\ last' = Call("write_8", <<address, value>>, Ok(0))
            /\ UNCHANGED aborted
    /\ UNCHANGED covered

Write16(address, value) ==
    /\ ~aborted
    /\ UNCHANGED cpu_vars
    /\ IF bus_panics(memory_controller, address)
       THEN /\ aborted' = TRUE
            /\ last' = Call("write_16", <<address, value>>,
                            Err(PANIC_INDEX, address))
            /\ UNCHANGED memory_controller
       ELSE /\ memory_controller' = write_16(memory_controller, address, value)
            /\ Dirty(memory_controller') <= MaxDirty
            /\ last' = Call("write_16", <<address, value>>, Ok(0))
            /\ UNCHANGED aborted
    /\ UNCHANGED covered

Reset ==
    /\ ~aborted
    /\ UNCHANGED cpu_vars
    /\ memory_controller' = reset(memory_controller)
    /\ last' = Call("reset", << >>, Ok(0))
    /\ UNCHANGED <<covered, aborted>>

\* The harness maps, unmaps and looks up devices and loads them out of band.
Next ==
    \/ \E args \in MapArgs, dev \in MapDevices :
            Map(args[1], args[2], dev[1], dev[2])
    \/ \E mapping_index \in Handles : Unmap(mapping_index)
    \/ \E mapping_index \in Handles : Get(mapping_index)
    \/ \E mapping_index \in Handles, address \in PokeOffsets,
          byte \in PokeBytes : Poke(mapping_index, address, <<byte>>)

Spec == Init /\ [][Next]_vars

\* ------------------------------------------------------------------------
\* The bus in use: the harness has set its devices up (as main does) and
\* the controller is read, written and reset
\* ------------------------------------------------------------------------
Step(first_block, blocks, kind, capacity, pokes) ==
    [first_block |-> first_block, blocks |-> blocks, kind |-> kind,
     capacity |-> capacity, pokes |-> pokes]
PokeArg(address, bytes) == [address |-> address, bytes |-> bytes]

\* main: RAM 0x0000-0x0FFF, ROM 0x8000-0xFFFF with the reset vector poked
MainSetup ==
    << Step(0, 1, "RAM", 4096, << >>),
       Step(8, 8, "ROM", 32768, << PokeArg(65534 - 32768, <<0, 128>>),
                                   PokeArg(0, <<0, 128, 240>>) >>) >>
\* two RAMs on adjacent blocks
AdjacentSetup ==
    << Step(0, 1, "RAM", 4096, << >>), Step(1, 1, "RAM", 4096, << >>) >>
\* a RAM larger than its one block, next to a ROM that holds a byte
LargeSetup ==
    << Step(0, 1, "RAM", 8192, << >>),
       Step(1, 2, "ROM", 8192, << PokeArg(0, <<90>>) >>) >>
\* a RAM smaller than its two blocks, block 2 unmapped
SmallSetup == << Step(0, 2, "RAM", 4096, << >>) >>
\* a RAM on the last block, block 0 unmapped
TopSetup == << Step(15, 1, "RAM", 4096, << >>) >>
\* a RAM that fills its two blocks
WideSetup == << Step(0, 2, "RAM", 8192, << >>) >>
Setups == {MainSetup, AdjacentSetup, LargeSetup, SmallSetup, TopSetup,
           WideSetup}

\* get_device_mut(h) and poke_bytes for each entry of pokes, in order
RECURSIVE PokeAll(_, _, _, _)
PokeAll(mc, h, pokes, i) ==
    IF i > Len(pokes) THEN mc
    ELSE LET g == get_device_mut(mc, h)
             r == Device_poke_bytes(g.val, pokes[i].address, pokes[i].bytes)
         IN  PokeAll([mc EXCEPT !.mappings[h + 1].device = r.dev],
                     h, pokes, i + 1)

\* map_device and the pokes for each step from the i-th on
RECURSIVE SetupFrom(_, _, _)
SetupFrom(st, steps, i) ==
    IF i > Len(steps) THEN st
    ELSE LET s == steps[i]
             id == NewId(st.mc)
             r == map_device(st.mc, s.first_block, s.blocks,
                             NewDevice(id, s.kind, s.capacity))
         IN  SetupFrom([mc |-> PokeAll(r.mc, r.ret.val, s.pokes, 1),
                        covered |-> CoveredAfterMap(st.covered, id,
                                        s.first_block, s.blocks, r.ret)],
                       steps, i + 1)

BusInit ==
    \E steps \in Setups :
        LET st == SetupFrom([mc |-> MemoryController_new,
                             covered |-> [i \in {} |-> {}]], steps, 1)
        IN  /\ memory_controller = st.mc
            /\ covered = st.covered
            /\ last = Call("new", << >>, Ok(0))
            /\ aborted = FALSE
            /\ cpu = CPU_new
            /\ overflow_checks = TRUE
            /\ ticks = 0

BusNext ==
    \/ \E address \in Addrs : Read8(address)
    \/ \E address \in Addrs : Read16(address)
    \/ \E address \in Addrs, value \in Bytes : Write8(address, value)
    \/ \E address \in Addrs, value \in Words : Write16(address, value)
    \/ Reset
    \/ \E mapping_index \in Handles, address \in PokeOffsets,
          byte \in PokeBytes : Poke(mapping_index, address, <<byte>>)

BusSpec == BusInit /\ [][BusNext]_vars

\* ------------------------------------------------------------------------
\* Properties
\* ------------------------------------------------------------------------
\* the blocks owned by some live mapping: those its map_device call covered
OwnedBlocks == UNION {covered[i] : i \in DOMAIN covered}
Unowned(address) == (address \div MAP_BLOCK_SIZE) \notin OwnedBlocks

\* C1: on an address whose block no mapping owns, read_8 and read_16 return
\* 0, and write_8 / write_16 leave the controller and every device as they
\* were, so that the address still reads 0 afterwards.
C1_UnmappedReadsZero ==
    [][ LET a == last'.args[1]
        IN  /\ (last'.op = "read_8" /\ Unowned(a)) => last'.ret = Ok(0)
            /\ (last'.op = "read_16" /\ Unowned(a)) => last'.ret = Ok(0)
            /\ (last'.op \in {"write_8", "write_16"} /\ Unowned(a)) =>
                  /\ last'.ret = Ok(0)
                  /\ memory_controller' = memory_controller
                  /\ read_8(memory_controller', a) = 0
                  /\ read_16(memory_controller', a) = 0 ]_vars

\* a non-zero word was written to an unowned address while a device holds data
C1_Witness ==
    /\ last.op = "write_16" /\ last.ret.ok
    /\ last.args[2] # 0
    /\ Unowned(last.args[1])
    /\ \E i \in 1 .. Len(memory_controller.mappings) :
          memory_controller.mappings[i].device.memory # ZeroMemory

\* C2: map_device on a range inside the table fails with the already-mapped
\* error when a block of the range is owned, leaving mappings and block table
\* as they were; otherwise it appends the mapping, sets exactly the covered
\* slots to the new index and returns that index.
C2_MapOverlapOrAppend ==
    [][ (last'.op = "map_device"
         /\ last'.args[1] + last'.args[2] <= MAP_BLOCKS) =>
        LET first_block == last'.args[1]
            range == first_block .. (first_block + last'.args[2] - 1)
            index == Len(memory_controller.mappings)
        IN  IF range \cap OwnedBlocks # {}
            THEN /\ ~last'.ret.ok
                 /\ last'.ret.err = ERR_ALREADY_MAPPED
                 /\ ~aborted'
                 /\ memory_controller' = memory_controller
            ELSE /\ last'.ret = Ok(index)
                 /\ ~aborted'
                 /\ Len(memory_controller'.mappings) = index + 1
                 /\ SubSeq(memory_controller'.mappings, 1, index)
                        = memory_controller.mappings
                 /\ memory_controller'.mappings[index + 1].offset
                        = first_block * MAP_BLOCK_SIZE
                 /\ memory_controller'.mappings[index + 1].device.id
                        = last'.args[3]
                 /\ \A b \in 0 .. (MAP_BLOCKS - 1) :
                        memory_controller'.blocks[b] =
                            IF b \in range THEN Some(index)
                            ELSE memory_controller.blocks[b] ]_vars

\* map_device(0, 2, d) was refused because of block 1 alone
C2_Witness ==
    /\ last.op = "map_device" /\ ~last.ret.ok
    /\ last.ret.err = ERR_ALREADY_MAPPED
    /\ last.args[1] = 0 /\ last.args[2] = 2 /\ last.ret.at = 1
    /\ memory_controller.blocks[0] = None

\* C3: after any sequence of map_device and unmap_device calls the ranges of
\* distinct live mappings are disjoint, and every slot of the block table is
\* empty or names the one live mapping whose map_device call covered it.
C3_TableMatchesMappings ==
    /\ \A i, j \in DOMAIN covered :
          i # j => covered[i] \cap covered[j] = {}
    /\ DOMAIN covered = LiveIds(memory_controller)
    /\ \A b \in 0 .. (MAP_BLOCKS - 1) :
          LET slot == memory_controller.blocks[b]
          IN  slot # None =>
                /\ slot[1] < Len(memory_controller.mappings)
                /\ b \in covered[memory_controller.mappings[slot[1] + 1].device.id]

\* a mapping that was not the last was unmapped and two mappings remain
C3_Witness ==
    /\ last.op = "unmap_device" /\ last.ret.ok
    /\ last.args[1] = 0
    /\ Len(memory_controller.mappings) = 2
    /\ \E b \in 0 .. (MAP_BLOCKS - 1) : memory_controller.blocks[b] = Some(0)
    /\ \E b \in 0 .. (MAP_BLOCKS - 1) : memory_controller.blocks[b] = Some(1)

\* where the bus sends an address: the device and the device-local address
Route(mc, address) ==
    IF block_of(mc, address) = None THEN None
    ELSE LET mapping == mc.mappings[block_of(mc, address)[1] + 1]
         IN  <<mapping.device, address - mapping.offset>>

\* the first and the last address of block b
BlockEnds(b) == {b * MAP_BLOCK_SIZE, b * MAP_BLOCK_SIZE + MAP_BLOCK_SIZE - 1}

\* C4: a successful unmap_device(h) empties every slot that named h and
\* rewrites every slot that named the last mapping to h; afterwards the
\* addresses of the removed mapping read 0 and the addresses of every other
\* mapping go to the same device with the same translated address as before.
C4_UnmapRewritesTable ==
    [][ (last'.op = "unmap_device" /\ last'.ret.ok) =>
        LET h == last'.args[1]
            last_index == Len(memory_controller.mappings) - 1
            removed == memory_controller.mappings[h + 1].device.id
        IN  /\ \A b \in 0 .. (MAP_BLOCKS - 1) :
                  /\ memory_controller.blocks[b] = Some(h)
                        => memory_controller'.blocks[b] = None
                  /\ (memory_controller.blocks[b] = Some(last_index)
                      /\ last_index # h)
                        => memory_controller'.blocks[b] = Some(h)
            /\ \A b \in 0 .. (MAP_BLOCKS - 1) : \A a \in BlockEnds(b) :
                  IF b \in covered[removed]
                  THEN /\ read_8(memory_controller', a) = 0
                       /\ read_16(memory_controller', a) = 0
                  ELSE /\ Route(memory_controller', a)
                            = Route(memory_controller, a)
                       /\ read_8(memory_controller', a)
                            = read_8(memory_controller, a) ]_vars

\* the first of three mappings was unmapped and the mapping that moved into
\* its place holds a byte that the bus still reads
C4_Witness ==
    /\ last.op = "unmap_device" /\ last.ret.ok
    /\ last.args[1] = 0
    /\ Len(memory_controller.mappings) = 2
    /\ memory_controller.mappings[1].device.memory # ZeroMemory
    /\ read_8(memory_controller, memory_controller.mappings[1].offset) = 90

\* C5: after map_device returned h, get_device(h) returns the device that
\* was mapped; after a successful unmap_device(h2), get_device(h) returns
\* the same device as before for every h other than h2 and the last index.
C5_HandlesKeepTheirDevice ==
    [][ /\ (last'.op = "map_device" /\ last'.ret.ok) =>
              LET g == get_device(memory_controller', last'.ret.val)
              IN  g.ok /\ g.val.id = last'.args[3]
                       /\ g.val.id \notin LiveIds(memory_controller)
        /\ (last'.op = "unmap_device" /\ last'.ret.ok) =>
              \A h \in 0 .. (Len(memory_controller.mappings) - 1) :
                  (h # last'.args[1]
                   /\ h # Len(memory_controller.mappings) - 1) =>
                        get_device(memory_controller', h)
                            = get_device(memory_controller, h) ]_vars

\* the first of three mappings was unmapped; handle 1 was neither the
\* removed handle nor the last one, and its device holds a poked byte
C5_Witness ==
    /\ last.op = "unmap_device" /\ last.ret.ok
    /\ last.args[1] = 0
    /\ Len(memory_controller.mappings) = 2
    /\ get_device(memory_controller, 1).ok
    /\ get_device(memory_controller, 1).val.memory # ZeroMemory

\* C6: after a successful unmap_device(h) with h below the last index,
\* get_device(h) returns the device that was last before, and the former
\* last handle is refused as out of bounds.
C6_LastMovesIntoHole ==
    [][ (last'.op = "unmap_device" /\ last'.ret.ok
         /\ last'.args[1] < Len(memory_controller.mappings) - 1) =>
        LET h == last'.args[1]
            last_index == Len(memory_controller.mappings) - 1
        IN  /\ get_device(memory_controller', h)
                  = Ok(memory_controller.mappings[last_index + 1].device)
            /\ get_device(memory_controller', last_index)
                  = Err(ERR_OUT_OF_BOUNDS, last_index)
            /\ get_device_mut(memory_controller', last_index)
                  = Err(ERR_OUT_OF_BOUNDS, last_index) ]_vars

\* handle 1 of three was unmapped, so the third mapping moved to handle 1
C6_Witness ==
    /\ last.op = "unmap_device" /\ last.ret.ok
    /\ last.args[1] = 1
    /\ Len(memory_controller.mappings) = 2

\* C7: unmap_device with a handle at or past the number of mappings fails
\* with the out-of-bounds error and leaves mappings and block table as they
\* were.
C7_UnmapBadHandle ==
    [][ (last'.op = "unmap_device"
         /\ last'.args[1] >= Len(memory_controller.mappings)) =>
            /\ last'.ret = Err(ERR_OUT_OF_BOUNDS, last'.args[1])
            /\ ~aborted'
            /\ memory_controller' = memory_controller ]_vars

\* the handle one past the last of two mappings was refused
C7_Witness ==
    /\ last.op = "unmap_device" /\ ~last.ret.ok
    /\ last.args[1] = 2
    /\ Len(memory_controller.mappings) = 2

\* C8: map_device with first_block + blocks > 16 returns an out-of-range
\* error without aborting and leaves mappings and block table as they were.
C8_MapOutOfRangeIsAnError ==
    [][ (last'.op = "map_device"
         /\ last'.args[1] + last'.args[2] > MAP_BLOCKS) =>
            /\ ~aborted'
            /\ ~last'.ret.ok
            /\ last'.ret.err = ERR_OUT_OF_BOUNDS
            /\ memory_controller' = memory_controller ]_vars

\* a + 1 is on the bus and its block does not belong to the mapping of a
Straddles(mc, a) ==
    /\ a % MAP_BLOCK_SIZE = MAP_BLOCK_SIZE - 1
    /\ a + 1 < ADDRESS_SPACE
    /\ \/ block_of(mc, a + 1) = None
       \/ block_of(mc, a + 1) # block_of(mc, a)

\* C9: on the last byte a of a block whose next block is unmapped or belongs
\* to another mapping, read_16(a) is read_8(a) | read_8(a + 1) << 8, and
\* write_16(a, w) leaves the bus as write_8(a, low byte of w) followed by
\* write_8(a + 1, high byte of w) does.
C9_StraddleIsTwoByteAccesses ==
    \A a \in Addrs :
        Straddles(memory_controller, a) =>
            /\ read_16(memory_controller, a)
                  = read_8(memory_controller, a)
                    + 256 * read_8(memory_controller, a + 1)
            /\ \A w \in Words :
                  write_16(memory_controller, a, w)
                      = write_8(write_8(memory_controller, a, w % 256),
                                a + 1, w \div 256)

\* C10: for a RAM mapped at base B and an offset o below its size and inside
\* its blocks, write_8(B + o, v) makes read_8(B + o) return v and changes no
\* other byte of any device.
C10_RamWriteReadBack ==
    [][ (last'.op = "write_8" /\ last'.ret.ok) =>
        LET a == last'.args[1]
            v == last'.args[2]
            mappings == memory_controller.mappings
        IN  \A i \in 1 .. Len(mappings) :
                (/\ mappings[i].device.kind = "RAM"
                 /\ (a \div MAP_BLOCK_SIZE) \in covered[mappings[i].device.id]
                 /\ a - mappings[i].offset < mappings[i].device.capacity) =>
                    /\ read_8(memory_controller', a) = v
                    /\ memory_controller'.blocks = memory_controller.blocks
                    /\ Len(memory_controller'.mappings) = Len(mappings)
                    /\ \A j \in 1 .. Len(mappings) :
                          LET old == mappings[j]
                              new == memory_controller'.mappings[j]
                          IN  /\ new.offset = old.offset
                              /\ new.device.id = old.device.id
                              /\ new.device.kind = old.device.kind
                              /\ new.device.capacity = old.device.capacity
                              /\ \A x \in (DOMAIN old.device.memory)
                                          \cup (DOMAIN new.device.memory) :
                                    (j = i /\ x = a - old.offset)
                                    \/ Cell(new.device.memory, x)
                                          = Cell(old.device.memory, x) ]_vars

\* a byte was written to the first address of the second of two adjacent
\* RAMs while the first RAM holds a byte of its own
C10_Witness ==
    /\ last.op = "write_8" /\ last.ret.ok
    /\ last.args = <<4096, 90>>
    /\ Len(memory_controller.mappings) = 2
    /\ memory_controller.mappings[2].device.kind = "RAM"
    /\ memory_controller.mappings[2].offset = 4096
    /\ memory_controller.mappings[1].device.memory # ZeroMemory
    /\ read_8(memory_controller, 4096) = 90

\* the index (from 1) of the live mapping of the given kind whose blocks
\* hold the address and whose device reaches it, or 0
DeviceAt(mc, kind, address) ==
    LET hits == {i \in 1 .. Len(mc.mappings) :
                    /\ mc.mappings[i].device.kind = kind
                    /\ (address \div MAP_BLOCK_SIZE)
                            \in covered[mc.mappings[i].device.id]
                    /\ address - mc.mappings[i].offset
                            < mc.mappings[i].device.capacity}
    IN  IF hits = {} THEN 0 ELSE Min(hits)

\* C11: when a and a + 1 both lie inside one mapped RAM, write_16(a, w)
\* makes read_16(a) return w, with the low byte at a and the high byte at
\* a + 1.
C11_RamWordRoundTrip ==
    [][ (last'.op = "write_16" /\ last'.ret.ok) =>
        LET a == last'.args[1]
            w == last'.args[2]
        IN  (/\ DeviceAt(memory_controller, "RAM", a) # 0
             /\ DeviceAt(memory_controller, "RAM", a + 1)
                    = DeviceAt(memory_controller, "RAM", a)) =>
                /\ read_16(memory_controller', a) = w
                /\ read_8(memory_controller', a) = w % 256
                /\ read_8(memory_controller', a + 1) = w \div 256 ]_vars

\* 0x1234 was written across the border of the two blocks of one RAM
C11_Witness ==
    /\ last.op = "write_16" /\ last.ret.ok
    /\ last.args = <<4095, 4660>>
    /\ DeviceAt(memory_controller, "RAM", 4095) # 0
    /\ DeviceAt(memory_controller, "RAM", 4096)
            = DeviceAt(memory_controller, "RAM", 4095)
    /\ read_8(memory_controller, 4096) = 18

\* C12: write_8 and write_16 on an address of a mapped ROM leave the result
\* of every read_8 and read_16 as it was, whereas poke_bytes on the ROM
\* changes the bytes the bus reads afterwards.
C12_RomIgnoresBusWrites ==
    [][ /\ (last'.op \in {"write_8", "write_16"} /\ last'.ret.ok
            /\ DeviceAt(memory_controller, "ROM", last'.args[1]) # 0) =>
                \A x \in Addrs :
                    /\ read_8(memory_controller', x)
                            = read_8(memory_controller, x)
                    /\ read_16(memory_controller', x)
                            = read_16(memory_controller, x)
        /\ (last'.op = "poke_bytes" /\ last'.ret.ok
            /\ memory_controller.mappings[last'.args[1] + 1].device.kind
                    = "ROM") =>
                LET mapping == memory_controller.mappings[last'.args[1] + 1]
                    a == mapping.offset + last'.args[2]
                IN  DeviceAt(memory_controller, "ROM", a) = last'.args[1] + 1
                        => read_8(memory_controller', a) = last'.args[3][1] ]_vars

\* a ROM that read 0 at its base was poked and now reads the poked byte there
C12_Witness ==
    /\ last.op = "poke_bytes" /\ last.ret.ok
    /\ last.args = <<1, 0, <<90>>>>
    /\ memory_controller.mappings[2].device.kind = "ROM"
    /\ memory_controller.mappings[2].offset = 32768
    /\ read_8(memory_controller, 32768) = 90

\* ------------------------------------------------------------------------
\* The CPU
\* ------------------------------------------------------------------------
RESET_VECTOR == 65534
NMI_VECTOR == 65532
IRQ_VECTOR == 65530

get_operation_from_instruction(instruction) ==
    LET operation == instruction % 64
    IN  CASE operation = 0 -> "Mov"
          [] operation = 1 -> "Adc"
          [] operation = 2 -> "Sbc"
          [] operation = 48 -> "Stp"
          [] operation = 49 -> "Rst"
          [] OTHER -> "Nop"

\* the variants of Location in the order of their 4-bit codes
Location ==
    << "Immediate", "A", "B", "C", "D", "Idx", "Idy", "Address",
       "IndexedAddress", "IndirectAddress", "IndirectIndexedAddress",
       "IndexedIndirectAddress", "IndexedPointer", "IndirectPointer",
       "IndirectIndexedPointer", "IndexedIndirectPointer" >>
Registers == {"A", "B", "C", "D", "Idx", "Idy"}

get_destination_from_instruction(instruction) ==
    Location[((instruction \div 4096) % 16) + 1]

\* get_source_from_instruction that reads the destination field
get_source_from_instruction_high_nibble(instruction) ==
    Location[((instruction \div 4096) % 16) + 1]

get_source_from_instruction(instruction) ==
    Location[((instruction \div 256) % 16) + 1]

\* The machine a CPU method works on: the CPU's fields, its memory
\* controller, and whether the call has panicked.  Once panic is set no
\* later statement of the call has an effect.
Machine(c, mc) == [cpu |-> c, mc |-> mc, panic |-> FALSE]
Ret(m, v) == [m |-> m, v |-> v]
SetCpu(m, c) == IF m.panic THEN m ELSE [m EXCEPT !.cpu = c]
\* one statement after another: value is computed once and handed on
Bind(value, Then(_)) == CHOOSE result \in {Then(x) : x \in {value}} : TRUE

\* x + y on u16: a panic in a build with overflow checks, else wrapped
add_u16(m, x, y) ==
    IF m.panic THEN Ret(m, 0)
    ELSE IF x + y >= ADDRESS_SPACE /\ overflow_checks
         THEN Ret([m EXCEPT !.panic = TRUE], 0)
         ELSE Ret(m, (x + y) % ADDRESS_SPACE)

\* the calls of the CPU on its memory controller
read16(m, address) ==
    IF m.panic THEN Ret(m, 0)
    ELSE IF bus_panics(m.mc, address) THEN Ret([m EXCEPT !.panic = TRUE], 0)
         ELSE Ret(m, read_16(m.mc, address))

read8(m, address) ==
    IF m.panic THEN Ret(m, 0)
    ELSE IF bus_panics(m.mc, address) THEN Ret([m EXCEPT !.panic = TRUE], 0)
         ELSE Ret(m, read_8(m.mc, address))

write16(m, address, value) ==
    IF m.panic THEN m
    ELSE IF bus_panics(m.mc, address) THEN [m EXCEPT !.panic = TRUE]
         ELSE [m EXCEPT !.mc = write_16(@, address, value)]

write8(m, address, value) ==
    IF m.panic THEN m
    ELSE IF bus_panics(m.mc, address) THEN [m EXCEPT !.panic = TRUE]
         ELSE [m EXCEPT !.mc = write_8(@, address, value)]

fetch16(m) ==
    Bind(read16(m, m.cpu.program_counter), LAMBDA fetched_value :
    Bind(add_u16(fetched_value.m, m.cpu.program_counter, 2), LAMBDA pc :
        Ret(SetCpu(pc.m, [pc.m.cpu EXCEPT !.program_counter = pc.v]),
            fetched_value.v)))

fetch8(m) ==
    Bind(read8(m, m.cpu.program_counter), LAMBDA fetched_value :
    Bind(add_u16(fetched_value.m, m.cpu.program_counter, 1), LAMBDA pc :
        Ret(SetCpu(pc.m, [pc.m.cpu EXCEPT !.program_counter = pc.v]),
            fetched_value.v)))

fetch_address(m) == fetch16(m)

fetch_indexed_address(m) ==
    Bind(fetch16(m), LAMBDA f :
        add_u16(f.m, f.v, f.m.cpu.index_x))

fetch_indirect_address(m) ==
    Bind(fetch16(m), LAMBDA indirect_address :
        read16(indirect_address.m, indirect_address.v))

fetch_indirect_indexed_address(m) ==
    Bind(fetch16(m), LAMBDA indirect_address :
    Bind(read16(indirect_address.m, indirect_address.v), LAMBDA r :
        add_u16(r.m, r.v, r.m.cpu.index_x)))

\* fetch_indexed_indirect_address that adds X after the dereference
fetch_indexed_indirect_address_indexes_last(m) ==
    Bind(fetch16(m), LAMBDA indirect_address :
    Bind(read16(indirect_address.m, indirect_address.v), LAMBDA r :
        add_u16(r.m, r.v, r.m.cpu.index_x)))

fetch_indexed_indirect_address(m) ==
    Bind(fetch16(m), LAMBDA f :
    Bind(add_u16(f.m, f.v, f.m.cpu.index_x), LAMBDA indirect_address :
        read16(indirect_address.m, indirect_address.v)))

get_pointer_indexed_address(m) ==
    add_u16(m, m.cpu.index_y, m.cpu.index_x)

get_pointer_indirect_address(m) ==
    read16(m, m.cpu.index_y)

get_pointer_indirect_indexed_address(m) ==
    Bind(read16(m, m.cpu.index_y), LAMBDA r :
        add_u16(r.m, r.v, r.m.cpu.index_x))

get_pointer_indexed_indirect_address(m) ==
    Bind(add_u16(m, m.cpu.index_y, m.cpu.index_x), LAMBDA indirect_address :
        read16(indirect_address.m, indirect_address.v))

\* the address helper that each match arm of a memory location calls
operand_address(m, location) ==
    CASE location = "Address" -> fetch_address(m)
      [] location = "IndexedAddress" -> fetch_indexed_address(m)
      [] location = "IndirectAddress" -> fetch_indirect_address(m)
      [] location = "IndirectIndexedAddress" ->
            fetch_indirect_indexed_address(m)
      [] location = "IndexedIndirectAddress" ->
            fetch_indexed_indirect_address(m)
      [] location = "IndexedPointer" -> get_pointer_indexed_address(m)
      [] location = "IndirectPointer" -> get_pointer_indirect_address(m)
      [] location = "IndirectIndexedPointer" ->
            get_pointer_indirect_indexed_address(m)
      [] location = "IndexedIndirectPointer" ->
            get_pointer_indexed_indirect_address(m)

\* status & mask != 0, for a one-bit mask
get_flag(status, mask) == (status \div mask) % 2 = 1
\* status |= mask when flag, else status &= ~mask
set_flag(status, mask, flag) ==
    IF flag THEN (IF get_flag(status, mask) THEN status ELSE status + mask)
    ELSE (IF get_flag(status, mask) THEN status - mask ELSE status)

get_carry_flag(m) == get_flag(m.cpu.status, 16)
get_interrupt_disable_flag(m) == get_flag(m.cpu.status, 4)

set_sign_flag(m, flag) ==
    SetCpu(m, [m.cpu EXCEPT !.status = set_flag(@, 128, flag)])
set_zero_flag(m, flag) ==
    SetCpu(m, [m.cpu EXCEPT !.status = set_flag(@, 64, flag)])
set_parity_flag(m, flag) ==
    SetCpu(m, [m.cpu EXCEPT !.status = set_flag(@, 32, flag)])
set_carry_flag(m, flag) ==
    SetCpu(m, [m.cpu EXCEPT !.status = set_flag(@, 16, flag)])
set_overflow_flag(m, flag) ==
    SetCpu(m, [m.cpu EXCEPT !.status = set_flag(@, 8, flag)])
set_interrupt_disable_flag(m, flag) ==
    SetCpu(m, [m.cpu EXCEPT !.status = set_flag(@, 4, flag)])

RECURSIVE count_ones(_)
count_ones(value) ==
    IF value = 0 THEN 0 ELSE (value % 2) + count_ones(value \div 2)

\* set_flags_from_value* that takes S from bit 15 of a word
set_flags_from_value_sign_bit_15(m, value) ==
    Bind(set_sign_flag(m, IF value >= 256 THEN value >= 32768
                          ELSE value >= 128), LAMBDA m1 :
    Bind(set_zero_flag(m1, value = 0), LAMBDA m2 :
        set_parity_flag(m2, count_ones(value) % 2 = 0)))

\* set_flags_from_value* that sets P when the count of ones is odd
set_flags_from_value_odd_parity(m, value) ==
    Bind(set_sign_flag(m, (value \div 128) % 2 = 1), LAMBDA m1 :
    Bind(set_zero_flag(m1, value = 0), LAMBDA m2 :
        set_parity_flag(m2, count_ones(value) % 2 = 1)))

\* set_flags_from_value16 and set_flags_from_value8: the same three lines
set_flags_from_value(m, value) ==
    Bind(set_sign_flag(m, (value \div 128) % 2 = 1), LAMBDA m1 :
    Bind(set_zero_flag(m1, value = 0), LAMBDA m2 :
        set_parity_flag(m2, count_ones(value) % 2 = 0)))

\* the register a Location names
register(c, location) ==
    CASE location = "A" -> c.a
      [] location = "B" -> c.b
      [] location = "C" -> c.c
      [] location = "D" -> c.d
      [] location = "Idx" -> c.index_x
      [] location = "Idy" -> c.index_y

set_register(c, location, value) ==
    CASE location = "A" -> [c EXCEPT !.a = value]
      [] location = "B" -> [c EXCEPT !.b = value]
      [] location = "C" -> [c EXCEPT !.c = value]
      [] location = "D" -> [c EXCEPT !.d = value]
      [] location = "Idx" -> [c EXCEPT !.index_x = value]
      [] location = "Idy" -> [c EXCEPT !.index_y = value]

\* set_al .. set_idyl: reg & 0xFF00 | value
set_low(c, location, value) ==
    set_register(c, location,
                 (register(c, location) \div 256) * 256 + value)

\* set_ah .. set_idyh that assign value << 8 to the whole register
set_high_clears_low(c, location, value) ==
    set_register(c, location, value * 256)

\* set_ah .. set_idyh: reg & 0x00FF | value << 8
set_high(c, location, value) ==
    set_register(c, location,
                 (register(c, location) % 256) + value * 256)

\* the most significant bit of a value of the given width
msb(value, width) == (value \div (2 ^ (width - 1))) % 2

\* add_with_carry* that leaves the carry flag out of the sum
add_with_carry_no_carry_in(m, width, lhs, rhs, carry) ==
    LET sum == lhs + rhs
        result == sum % (2 ^ width)
        carry_out == sum >= 2 ^ width
    IN  Bind(set_flags_from_value(m, result), LAMBDA m1 :
        Bind(set_carry_flag(m1, carry_out), LAMBDA m2 :
            Ret(set_overflow_flag(m2,
                    /\ msb(lhs, width) = msb(rhs, width)
                    /\ msb(lhs, width) # msb(result, width)),
                result)))

\* add_with_carry16 and add_with_carry8, which differ in the width only
add_with_carry(m, width, lhs, rhs, carry) ==
    LET sum == lhs + rhs + (IF carry THEN 1 ELSE 0)
        result == sum % (2 ^ width)
        carry_out == sum >= 2 ^ width
    IN  Bind(set_flags_from_value(m, result), LAMBDA m1 :
        Bind(set_carry_flag(m1, carry_out), LAMBDA m2 :
            Ret(set_overflow_flag(m2,
                    /\ msb(lhs, width) = msb(rhs, width)
                    /\ msb(lhs, width) # msb(result, width)),
                result)))

\* subtract_with_carry* whose O flag is the signed overflow of lhs - rhs
subtract_with_carry_signed_overflow(m, width, lhs, rhs, carry) ==
    LET difference == lhs - rhs - (IF ~carry THEN 1 ELSE 0)
        result == (difference + 2 ^ width) % (2 ^ width)
        borrow == difference < 0
    IN  Bind(set_flags_from_value(m, result), LAMBDA m1 :
        Bind(set_carry_flag(m1, ~borrow), LAMBDA m2 :
            Ret(set_overflow_flag(m2,
                    /\ msb(lhs, width) # msb(rhs, width)
                    /\ msb(lhs, width) # msb(result, width)),
                result)))

\* subtract_with_carry* that sets C to the borrow
subtract_with_carry_borrow_flag(m, width, lhs, rhs, carry) ==
    LET difference == lhs - rhs - (IF ~carry THEN 1 ELSE 0)
        result == (difference + 2 ^ width) % (2 ^ width)
        borrow == difference < 0
    IN  Bind(set_flags_from_value(m, result), LAMBDA m1 :
        Bind(set_carry_flag(m1, borrow), LAMBDA m2 :
            Ret(set_overflow_flag(m2,
                    /\ msb(lhs, width) = msb(rhs, width)
                    /\ msb(lhs, width) # msb(result, width)),
                result)))

\* subtract_with_carry16 and subtract_with_carry8
subtract_with_carry(m, width, lhs, rhs, carry) ==
    LET difference == lhs - rhs - (IF ~carry THEN 1 ELSE 0)
        result == (difference + 2 ^ width) % (2 ^ width)
        borrow == difference < 0
    IN  Bind(set_flags_from_value(m, result), LAMBDA m1 :
        Bind(set_carry_flag(m1, ~borrow), LAMBDA m2 :
            Ret(set_overflow_flag(m2,
                    /\ msb(lhs, width) = msb(rhs, width)
                    /\ msb(lhs, width) # msb(result, width)),
                result)))

\* the match on source that opens every execute_*16
source_value16(m, source) ==
    IF source = "Immediate" THEN fetch16(m)
    ELSE IF source \in Registers THEN Ret(m, register(m.cpu, source))
    ELSE Bind(operand_address(m, source), LAMBDA source_address :
            read16(source_address.m, source_address.v))

\* the match on source that opens every execute_*8
source_value8(m, lo_hi, source) ==
    IF source = "Immediate" THEN fetch8(m)
    ELSE IF source \in Registers
         THEN Ret(m, IF lo_hi THEN register(m.cpu, source) \div 256
                     ELSE register(m.cpu, source) % 256)
    ELSE Bind(operand_address(m, source), LAMBDA source_address :
            read8(source_address.m, source_address.v))

execute_mov16(m, destination, source) ==
    Bind(source_value16(m, source), LAMBDA source_value :
    Bind(set_flags_from_value(source_value.m, source_value.v), LAMBDA m1 :
        IF destination = "Immediate" THEN m1
        ELSE IF destination \in Registers
             THEN SetCpu(m1, set_register(m1.cpu, destination,
                                          source_value.v))
        ELSE Bind(operand_address(m1, destination),
                  LAMBDA destination_address :
                write16(destination_address.m, destination_address.v,
                        source_value.v))))

execute_mov8(m, lo_hi, destination, source) ==
    Bind(source_value8(m, lo_hi, source), LAMBDA source_value :
    Bind(set_flags_from_value(source_value.m, source_value.v), LAMBDA m1 :
        IF destination = "Immediate" THEN m1
        ELSE IF destination \in Registers
             THEN SetCpu(m1, IF lo_hi
                             THEN set_high(m1.cpu, destination,
                                           source_value.v)
                             ELSE set_low(m1.cpu, destination,
                                          source_value.v))
        ELSE Bind(operand_address(m1, destination),
                  LAMBDA destination_address :
                write8(destination_address.m, destination_address.v,
                       source_value.v))))

\* the arithmetic call of execute_adc* or of execute_sbc*
alu(operation, m, width, lhs, rhs, carry) ==
    IF operation = "Adc" THEN add_with_carry(m, width, lhs, rhs, carry)
    ELSE subtract_with_carry(m, width, lhs, rhs, carry)

\* execute_adc16 and execute_sbc16, which differ in the arithmetic call
execute_alu16(m, operation, destination, source) ==
    Bind(source_value16(m, source), LAMBDA source_value :
        IF destination = "Immediate" THEN source_value.m
        ELSE IF destination \in Registers
             THEN Bind(alu(operation, source_value.m, 16,
                           register(source_value.m.cpu, destination),
                           source_value.v,
                           get_carry_flag(source_value.m)),
                       LAMBDA result :
                    SetCpu(result.m, set_register(result.m.cpu,
                                                  destination, result.v)))
        ELSE Bind(operand_address(source_value.m, destination),
                  LAMBDA destination_address :
             Bind(read16(destination_address.m, destination_address.v),
                  LAMBDA lhs :
             Bind(alu(operation, lhs.m, 16, lhs.v, source_value.v,
                      get_carry_flag(lhs.m)),
                  LAMBDA result :
                write16(result.m, destination_address.v, result.v)))))

\* execute_adc8 and execute_sbc8: a register destination is read as its
\* low byte and written to the half lo_hi selects
execute_alu8(m, operation, lo_hi, destination, source) ==
    Bind(source_value8(m, lo_hi, source), LAMBDA source_value :
        IF destination = "Immediate" THEN source_value.m
        ELSE IF destination \in Registers
             THEN Bind(alu(operation, source_value.m, 8,
                           register(source_value.m.cpu, destination) % 256,
                           source_value.v,
                           get_carry_flag(source_value.m)),
                       LAMBDA result :
                    SetCpu(result.m,
                           IF lo_hi
                           THEN set_high(result.m.cpu, destination,
                                         result.v)
                           ELSE set_low(result.m.cpu, destination,
                                        result.v)))
        ELSE Bind(operand_address(source_value.m, destination),
                  LAMBDA destination_address :
             Bind(read8(destination_address.m, destination_address.v),
                  LAMBDA lhs :
             Bind(alu(operation, lhs.m, 8, lhs.v, source_value.v,
                      get_carry_flag(lhs.m)),
                  LAMBDA result :
                write8(result.m, destination_address.v, result.v)))))

execute_adc16(m, destination, source) ==
    execute_alu16(m, "Adc", destination, source)
\* execute_adc8 whose Immediate destination adds into a discarded zero
execute_adc8_adds_to_immediate(m, lo_hi, destination, source) ==
    IF destination # "Immediate"
    THEN execute_alu8(m, "Adc", lo_hi, destination, source)
    ELSE Bind(source_value8(m, lo_hi, source), LAMBDA source_value :
            add_with_carry(source_value.m, 8, 0, source_value.v,
                           get_carry_flag(source_value.m)).m)
execute_adc8(m, lo_hi, destination, source) ==
    execute_alu8(m, "Adc", lo_hi, destination, source)
execute_sbc16(m, destination, source) ==
    execute_alu16(m, "Sbc", destination, source)
execute_sbc8(m, lo_hi, destination, source) ==
    execute_alu8(m, "Sbc", lo_hi, destination, source)

\* CPU::reset that latches the program counter before the devices reset
CPU_reset_latch_first(m) ==
    Bind(read16(m, RESET_VECTOR), LAMBDA pc :
        SetCpu(IF pc.m.panic THEN pc.m ELSE [pc.m EXCEPT !.mc = reset(@)],
               [enable |-> TRUE, waiting_for_interrupt |-> FALSE,
                program_counter |-> pc.v, stack_pointer |-> 0,
                index_x |-> 0, index_y |-> 0, status |-> 0,
                a |-> 0, b |-> 0, c |-> 0, d |-> 0]))

\* CPU::reset
CPU_reset(m) ==
    Bind([m EXCEPT !.cpu.enable = TRUE,
                   !.cpu.waiting_for_interrupt = FALSE,
                   !.mc = reset(@)], LAMBDA m1 :
    Bind(read16(m1, RESET_VECTOR), LAMBDA pc :
        SetCpu(pc.m, [pc.m.cpu EXCEPT
                        !.program_counter = pc.v, !.stack_pointer = 0,
                        !.index_x = 0, !.index_y = 0, !.status = 0,
                        !.a = 0, !.b = 0, !.c = 0, !.d = 0])))

\* the body of "if nmi" in process
process_nmi(m) ==
    Bind(set_interrupt_disable_flag(
            [m EXCEPT !.cpu.waiting_for_interrupt = FALSE], TRUE),
         LAMBDA m1 :
    Bind(read16(m1, NMI_VECTOR), LAMBDA pc :
        SetCpu(pc.m, [pc.m.cpu EXCEPT !.program_counter = pc.v])))

\* the body of "if let Some(irq_code) = irq" in process
process_irq(m, irq_code) ==
    Bind(set_interrupt_disable_flag(m, TRUE), LAMBDA m1 :
    Bind(read16(m1, IRQ_VECTOR), LAMBDA base :
    Bind(read16(base.m, base.v + irq_code * 2), LAMBDA pc :
        SetCpu(pc.m, [pc.m.cpu EXCEPT !.program_counter = pc.v]))))

\* process_waiting whose IRQ branch tests the I flag the call started with
process_waiting_irq_wins(m, nmi, irq) ==
    Bind(IF nmi THEN process_nmi(m) ELSE m, LAMBDA m1 :
        IF irq = None \/ m1.panic THEN m1
        ELSE Bind([m1 EXCEPT !.cpu.waiting_for_interrupt = FALSE],
                  LAMBDA m2 :
                IF get_interrupt_disable_flag(m) THEN m2
                ELSE process_irq(m2, irq[1])))

\* the body of "if self.waiting_for_interrupt" in process
process_waiting(m, nmi, irq) ==
    Bind(IF nmi THEN process_nmi(m) ELSE m, LAMBDA m1 :
        IF irq = None \/ m1.panic THEN m1
        ELSE Bind([m1 EXCEPT !.cpu.waiting_for_interrupt = FALSE],
                  LAMBDA m2 :
                IF get_interrupt_disable_flag(m2) THEN m2
                ELSE process_irq(m2, irq[1])))

\* the instruction fetch, decode and match on operation in process
process_running(m) ==
    Bind(fetch16(m), LAMBDA f :
        LET instruction == f.v
            operation == get_operation_from_instruction(instruction)
            byte_mode == (instruction \div 64) % 2 = 1
            lo_hi == (instruction \div 128) % 2 = 1
            destination == get_destination_from_instruction(instruction)
            source == get_source_from_instruction(instruction)
        IN  IF f.m.panic THEN f.m
            ELSE CASE operation = "Mov" ->
                        IF byte_mode
                        THEN execute_mov8(f.m, lo_hi, destination, source)
                        ELSE execute_mov16(f.m, destination, source)
                   [] operation = "Adc" ->
                        IF byte_mode
                        THEN execute_adc8(f.m, lo_hi, destination, source)
                        ELSE execute_adc16(f.m, destination, source)
                   [] operation = "Sbc" ->
                        IF byte_mode
                        THEN execute_sbc8(f.m, lo_hi, destination, source)
                        ELSE execute_sbc16(f.m, destination, source)
                   [] operation = "Stp" -> [f.m EXCEPT !.cpu.enable = FALSE]
                   [] operation = "Rst" -> CPU_reset(f.m)
                   [] operation = "Nop" -> f.m)

\* process without its test of enable
process_ignores_enable(m, nmi, irq) ==
    IF m.cpu.waiting_for_interrupt THEN process_waiting(m, nmi, irq)
    ELSE process_running(m)

\* process that serves an NMI while running
process_polls_interrupts(m, nmi, irq) ==
    IF ~m.cpu.enable THEN m
    ELSE IF m.cpu.waiting_for_interrupt \/ nmi
         THEN process_waiting(m, nmi, irq)
    ELSE process_running(m)

\* process whose STP sets the wait latch instead of clearing enable
process_stp_waits(m, nmi, irq) ==
    IF ~m.cpu.enable THEN m
    ELSE IF m.cpu.waiting_for_interrupt THEN process_waiting(m, nmi, irq)
    ELSE Bind(process_running(m), LAMBDA r :
            IF r.panic \/ r.cpu.enable THEN r
            ELSE [r EXCEPT !.cpu.enable = TRUE,
                           !.cpu.waiting_for_interrupt = TRUE])

\* CPU::process
process(m, nmi, irq) ==
    IF ~m.cpu.enable THEN m
    ELSE IF m.cpu.waiting_for_interrupt THEN process_waiting(m, nmi, irq)
    ELSE process_running(m)

\* ------------------------------------------------------------------------
\* The CPU harness: a board with a program in ROM, then reset, register
\* writes through the public fields, and process calls
\* ------------------------------------------------------------------------
\* dst<<12 | src<<8 | LH<<7 | W<<6 | op
Word(operation, byte_mode, lo_hi, source, destination) ==
    operation + 64 * byte_mode + 128 * lo_hi + 256 * source
        + 4096 * destination
\* the two bytes of a word in memory order
LE(word) == <<word % 256, word \div 256>>

ROM_FIRST_ADDRESS == 32768
NMI_HANDLER == 36864
IRQ_HANDLER == 45824
\* main's board: RAM at block 0, ROM at blocks 8-15 holding the program,
\* the three vectors and entry 3 of the IRQ table; the RAM is not empty.
\* The program is poked last, so a program at the top of the ROM lies over
\* the vectors.
Board(program_at, program, irq_base) ==
    << Step(0, 1, "RAM", 4096, << PokeArg(16, <<52, 18>>) >>),
       Step(8, 8, "ROM", 32768,
            << PokeArg(IRQ_VECTOR - ROM_FIRST_ADDRESS, LE(irq_base)),
               PokeArg(NMI_VECTOR - ROM_FIRST_ADDRESS, LE(NMI_HANDLER)),
               PokeArg(irq_base + 6 - ROM_FIRST_ADDRESS, LE(IRQ_HANDLER)),
               PokeArg(RESET_VECTOR - ROM_FIRST_ADDRESS, LE(program_at)),
               PokeArg(program_at - ROM_FIRST_ADDRESS, program) >>) >>

\* a board whose vectors lie in RAM: ROM at block 0, RAM at block 15
RamTopBoard(program) ==
    << Step(0, 1, "ROM", 4096, << PokeArg(0, program) >>),
       Step(15, 1, "RAM", 4096, << PokeArg(4094, LE(2048)) >>) >>

\* each source mode once, with the destination mode, width and half varied
FieldSamples ==
    {<<s % 2, (s \div 2) % 2, s, 15 - s>> : s \in 0 .. 15}
\* an instruction word and the operand bytes that follow it
Instruction(operation, byte_mode, lo_hi, source, destination, bytes) ==
    LE(Word(operation, byte_mode, lo_hi, source, destination)) \o bytes

\* every program is followed by or holds the absolute addresses 0x0010 and
\* 0x0020 in RAM
Boards ==
       {Board(ROM_FIRST_ADDRESS,
              Instruction(operation, f[1], f[2], f[3], f[4],
                          LE(16) \o LE(32)), 40960) :
            operation \in {3, 63, 48}, f \in FieldSamples}
  \cup {Board(ROM_FIRST_ADDRESS,
              Instruction(operation, f[1], f[2], f[3], f[4],
                          LE(16) \o LE(32)), 40960) :
            operation \in {0, 1, 2, 49},
            f \in {g \in FieldSamples : g[3] \in {0, 1, 7, 8, 12, 15}}}
       \* a NOP in the last two words of the address space
  \cup {Board(65532, LE(Word(3, 0, 0, 0, 0)), 40960)}
       \* MOV A, #imm and MOV #imm, #imm at 0xFFFC: the immediate is the
       \* reset vector
  \cup {Board(65532, Instruction(0, 0, 0, 0, destination, << >>), 40960) :
            destination \in 0 .. 1}
       \* three instructions that end at 0xFFFE, where the reset vector
       \* itself decodes as STP (0xFFF0) or RST (0xFFF1): MOV word
       \* [0x0010] -> [0x0020] (six bytes), then the same or MOV byte
       \* #0x5A -> [0x0020] (five bytes), then a NOP
  \cup {Board(65520,
              Instruction(0, 0, 0, 7, 7, LE(16) \o LE(32))
                \o Instruction(0, 0, 0, 7, 7, LE(16) \o LE(32))
                \o LE(Word(3, 0, 0, 0, 0)), 40960),
        Board(65521,
              Instruction(0, 0, 0, 7, 7, LE(16) \o LE(32))
                \o Instruction(0, 1, 0, 0, 7, <<90>> \o LE(32))
                \o LE(Word(3, 0, 0, 0, 0)), 40960)}
       \* an IRQ table that ends past the top of the address space
  \cup {Board(ROM_FIRST_ADDRESS, LE(Word(3, 0, 0, 0, 0)), 65280)}
  \cup {RamTopBoard(LE(Word(3, 0, 0, 0, 0)))}
       \* the same instruction twice with two immediates, into each register
  \cup {Board(ROM_FIRST_ADDRESS,
              Instruction(operation, wl[1], wl[2], 0, destination,
                          IF wl[1] = 1 THEN <<66>> ELSE LE(48879))
              \o Instruction(operation, wl[1], wl[2], 0, destination,
                             IF wl[1] = 1 THEN <<240>> ELSE LE(1)), 40960) :
            operation \in 0 .. 2, wl \in {<<0, 0>>, <<1, 0>>, <<1, 1>>},
            destination \in 1 .. 6}
       \* a register into register B
  \cup {Board(ROM_FIRST_ADDRESS,
              Instruction(operation, wl[1], wl[2], source, 2, << >>), 40960) :
            operation \in 0 .. 1, wl \in {<<0, 0>>, <<1, 0>>, <<1, 1>>},
            source \in {1, 3}}
       \* MOV A, #0x7FFF; ADC A, #0x0001
  \cup {Board(ROM_FIRST_ADDRESS,
              Instruction(0, 0, 0, 0, 1, LE(32767))
                \o Instruction(1, 0, 0, 0, 1, LE(1)), 40960)}
       \* MOV [0x0020], #0x80FF; ADC [0x0020], #0x8001;
       \* SBC byte [0x0021], #0x90; ADC byte (LH = 1) [0x0020], D
  \cup {Board(ROM_FIRST_ADDRESS,
              Instruction(0, 0, 0, 0, 7, LE(33023) \o LE(32))
                \o Instruction(1, 0, 0, 0, 7, LE(32769) \o LE(32))
                \o Instruction(2, 1, 0, 0, 7, <<144>> \o LE(33))
                \o Instruction(1, 1, 1, 4, 7, LE(32)), 40960)}
       \* ADC A, [0x8000]; SBC byte B, [0x8001];
       \* MOV byte (LH = 1) C, [0x8004]
  \cup {Board(ROM_FIRST_ADDRESS,
              Instruction(1, 0, 0, 7, 1, LE(32768))
                \o Instruction(2, 1, 0, 7, 2, LE(32769))
                \o Instruction(0, 1, 1, 7, 3, LE(32772)), 40960)}
       \* each memory mode as source, as destination and as source again:
       \* MOV B, [mode]; MOV/ADC/SBC [mode], #imm; MOV C, [mode], on main's
       \* board and on a board with a ROM at block 0 that holds the
       \* pointers 0x1020 at 0x0010 and 0x0120 at 0x0014 and the byte 0x77 at
       \* 0x0120, and a RAM at block 1
  \cup LET operand(mode) ==
                CASE mode \in {7, 8} -> LE(4096)
                  [] mode \in {9, 10} -> LE(16)
                  [] mode = 11 -> LE(12)
                  [] OTHER -> << >>
           Program(operation, byte_mode, mode) ==
                Instruction(0, byte_mode, 0, mode, 2, operand(mode))
                  \o Instruction(operation, byte_mode, 0, 0, mode,
                                 (IF byte_mode = 1 THEN <<66>> ELSE LE(48879))
                                    \o operand(mode))
                  \o Instruction(0, byte_mode, 0, mode, 3, operand(mode))
           PointerBoard(program) ==
                << Step(0, 1, "ROM", 4096,
                        << PokeArg(16, LE(4128)), PokeArg(20, LE(288)),
                           PokeArg(288, <<119>>) >>),
                   Step(1, 1, "RAM", 4096, << >>),
                   Board(ROM_FIRST_ADDRESS, program, 40960)[2] >>
       IN  {PointerBoard(Program(operation, byte_mode, mode)) :
                operation \in 0 .. 2, byte_mode \in 0 .. 1, mode \in 7 .. 15}
           \cup {Board(ROM_FIRST_ADDRESS,
                       Program(operation, byte_mode, mode), 40960) :
                    operation \in 0 .. 2, byte_mode \in 0 .. 1,
                    mode \in 12 .. 15}

\* values the harness writes into the public register fields
Preset(waiting, x, y, status, a) ==
    [waiting_for_interrupt |-> waiting,
     stack_pointer |-> 256, index_x |-> x, index_y |-> y, status |-> status,
     a |-> a, b |-> 255, c |-> 32768, d |-> 65535]
Presets ==
    { Preset(FALSE, 4, 16, 0, 4660),
      Preset(FALSE, 65535, 65535, 252, 32767),
      Preset(TRUE, 4, 16, 0, 4660),
      Preset(TRUE, 4, 16, 252, 4660) }
Irqs == {None, Some(3), Some(255)}

CpuInit ==
    \E board \in Boards, checks \in BOOLEAN :
        LET st == SetupFrom([mc |-> MemoryController_new,
                             covered |-> [i \in {} |-> {}]], board, 1)
        IN  /\ memory_controller = st.mc
            /\ covered = st.covered
            /\ last = Call("new", << >>, Ok(0))
            /\ aborted = FALSE
            /\ cpu = CPU_new
            /\ overflow_checks = checks
            /\ ticks = 0

CpuReset ==
    /\ ~aborted
    /\ \E m \in {CPU_reset(Machine(cpu, memory_controller))} :
           /\ cpu' = m.cpu
           /\ memory_controller' = m.mc
           /\ aborted' = m.panic
    /\ last' = Call("cpu_reset", << >>, Ok(0))
    /\ ticks' = 0
    /\ UNCHANGED <<covered, overflow_checks>>

Process(nmi, irq) ==
    /\ ~aborted
    /\ ticks < MaxSteps
    /\ \E m \in {process(Machine(cpu, memory_controller), nmi, irq)} :
           /\ cpu' = m.cpu
           /\ memory_controller' = m.mc
           /\ aborted' = m.panic
    /\ last' = Call("process", <<nmi, irq>>, Ok(0))
    /\ ticks' = ticks + 1
    /\ UNCHANGED <<covered, overflow_checks>>

\* the harness sets the public register fields after new() or reset()
Load(preset) ==
    /\ ~aborted
    /\ last.op \in {"new", "cpu_reset"}
    /\ cpu' = [cpu EXCEPT
                !.waiting_for_interrupt = preset.waiting_for_interrupt,
                !.stack_pointer = preset.stack_pointer,
                !.index_x = preset.index_x,
                !.index_y = preset.index_y,
                !.status = preset.status,
                !.a = preset.a, !.b = preset.b,
                !.c = preset.c, !.d = preset.d]
    /\ last' = Call("load", <<preset>>, Ok(0))
    /\ ticks' = 0
    /\ UNCHANGED <<memory_controller, covered, aborted, overflow_checks>>

CpuNext ==
    \/ CpuReset
    \/ \E nmi \in BOOLEAN, irq \in Irqs : Process(nmi, irq)
    \/ \E preset \in Presets : Load(preset)

CpuSpec == CpuInit /\ [][CpuNext]_vars

\* ------------------------------------------------------------------------
\* Properties of the CPU
\* ------------------------------------------------------------------------
\* the three states process tells apart
Off(c) == ~c.enable
Waiting(c) == c.enable /\ c.waiting_for_interrupt
Running(c) == c.enable /\ ~c.waiting_for_interrupt
\* the little-endian word the bus holds at an address and the one after it
WordAt(mc, address) == read_8(mc, address) + 256 * read_8(mc, address + 1)
\* the operation field of the word at the program counter
OpAtPc == read_16(memory_controller, cpu.program_counter) % 64

\* C13: after cpu.reset() from any state enable is true, the wait latch is
\* clear, PC is the little-endian word at 0xFFFE/0xFFFF, SP, X, Y, A, B, C,
\* D and the status register are zero, and every mapped RAM is zero-filled.
C13_ResetState ==
    [][ last'.op = "cpu_reset" =>
        /\ ~aborted'
        /\ cpu' = [enable |-> TRUE, waiting_for_interrupt |-> FALSE,
                   program_counter |->
                        WordAt(memory_controller', RESET_VECTOR),
                   stack_pointer |-> 0, index_x |-> 0, index_y |-> 0,
                   status |-> 0, a |-> 0, b |-> 0, c |-> 0, d |-> 0]
        /\ \A i \in 1 .. Len(memory_controller'.mappings) :
              memory_controller'.mappings[i].device.kind = "RAM" =>
                 memory_controller'.mappings[i].device.memory = ZeroMemory ]_vars

\* reset() has run on main's board: PC is the ROM's reset vector and the
\* RAM, which held bytes, is empty
C13_Witness ==
    /\ last.op = "cpu_reset"
    /\ cpu.enable /\ cpu.program_counter = ROM_FIRST_ADDRESS
    /\ memory_controller.mappings[1].device.kind = "RAM"
    /\ memory_controller.mappings[1].device.memory = ZeroMemory
    /\ read_16(memory_controller, RESET_VECTOR) = ROM_FIRST_ADDRESS

\* C14: while the CPU is Off, process(nmi, irq) changes no register, no
\* flag and no memory whatever nmi and irq are, and only reset() leaves Off.
C14_OffIsInert ==
    [][ /\ (last'.op = "process" /\ Off(cpu)) =>
                /\ cpu' = cpu
                /\ memory_controller' = memory_controller
                /\ ~aborted'
        /\ (Off(cpu) /\ ~Off(cpu')) => last'.op = "cpu_reset" ]_vars

\* process(true, Some(3)) was called on a CPU that was built, had its
\* registers set and was never reset
C14_Witness ==
    /\ last.op = "process" /\ last.args = <<TRUE, Some(3)>>
    /\ Off(cpu) /\ cpu.a = 4660 /\ cpu.program_counter = 0

\* C15: STP executed in Running sets enable to false and advances PC by
\* exactly 2, changes no other register, flag or memory cell and consumes
\* no operand bytes whatever the src/dst fields are; every later process
\* call is a no-op until reset().
C15_StpHalts ==
    [][ /\ (last'.op = "process" /\ Running(cpu) /\ OpAtPc = 48) =>
                /\ ~aborted'
                /\ cpu' = [cpu EXCEPT
                            !.enable = FALSE,
                            !.program_counter = (@ + 2) % ADDRESS_SPACE]
                /\ memory_controller' = memory_controller
        /\ (last'.op = "process" /\ Off(cpu)) =>
                /\ Off(cpu') /\ cpu' = cpu
                /\ memory_controller' = memory_controller ]_vars

\* C16: while Running, process(nmi, irq) has the same next state for every
\* nmi and irq: it executes one instruction, loads PC from no interrupt
\* vector and does not change I because of the interrupt inputs.
C16_RunningIgnoresInterrupts ==
    [][ (last'.op = "process" /\ Running(cpu)) =>
            LET m == process_running(Machine(cpu, memory_controller))
            IN  /\ cpu' = m.cpu
                /\ memory_controller' = m.mc
                /\ aborted' = m.panic ]_vars

\* process(true, Some(3)) executed the NOP at the start of the ROM: PC went
\* on by 2 and I is still clear
C16_Witness ==
    /\ last.op = "process" /\ last.args = <<TRUE, Some(3)>>
    /\ ~aborted /\ Running(cpu)
    /\ cpu.program_counter = ROM_FIRST_ADDRESS + 2
    /\ ticks = 1
    /\ ~get_flag(cpu.status, 4)

\* C17: in Waiting, process(true, irq) clears the wait latch, sets I and
\* loads PC from the little-endian word at 0xFFFC; no instruction is
\* fetched or executed in that call.
C17_NmiWakes ==
    [][ (last'.op = "process" /\ Waiting(cpu) /\ last'.args[1]) =>
            /\ ~aborted'
            /\ cpu' = [cpu EXCEPT
                        !.waiting_for_interrupt = FALSE,
                        !.status = set_flag(@, 4, TRUE),
                        !.program_counter =
                            WordAt(memory_controller, NMI_VECTOR)]
            /\ memory_controller' = memory_controller ]_vars

\* process(true, Some(3)) woke a waiting CPU whose I flag was clear: PC is
\* the NMI handler, not the IRQ handler
C17_Witness ==
    /\ last.op = "process" /\ last.args = <<TRUE, Some(3)>>
    /\ ticks = 1 /\ ~aborted
    /\ Running(cpu)
    /\ cpu.program_counter = NMI_HANDLER
    /\ cpu.status = 4

\* C18: in Waiting with NMI not asserted, process(false, Some(irq)) clears
\* the wait latch; if I was set it changes nothing else; if I was clear it
\* sets I and loads PC from the word at address [0xFFFA] + 2 * irq.
C18_IrqWakes ==
    [][ (last'.op = "process" /\ Waiting(cpu) /\ ~last'.args[1]
         /\ last'.args[2] # None) =>
            /\ ~aborted'
            /\ memory_controller' = memory_controller
            /\ IF get_flag(cpu.status, 4)
               THEN cpu' = [cpu EXCEPT !.waiting_for_interrupt = FALSE]
               ELSE cpu' = [cpu EXCEPT
                        !.waiting_for_interrupt = FALSE,
                        !.status = set_flag(@, 4, TRUE),
                        !.program_counter =
                            WordAt(memory_controller,
                                   WordAt(memory_controller, IRQ_VECTOR)
                                        + 2 * last'.args[2][1])] ]_vars

\* C19: RST executed in Running leaves the CPU and every device in the
\* state reset() would leave them in from the same state.
C19_RstIsReset ==
    [][ (last'.op = "process" /\ Running(cpu) /\ OpAtPc = 49) =>
            LET m == CPU_reset(Machine(cpu, memory_controller))
            IN  /\ aborted' = m.panic
                /\ cpu' = m.cpu
                /\ memory_controller' = m.mc ]_vars

\* C20: for every instruction word whose op field is not 0x00, 0x01, 0x02,
\* 0x30 or 0x31, process advances PC by exactly 2 and changes nothing
\* else, whatever the W, LH, src and dst fields are.
C20_NopAdvancesPc ==
    [][ (last'.op = "process" /\ Running(cpu)
         /\ OpAtPc \notin {0, 1, 2, 48, 49}) =>
            /\ ~aborted'
            /\ cpu' = [cpu EXCEPT
                        !.program_counter = (@ + 2) % ADDRESS_SPACE]
            /\ memory_controller' = memory_controller ]_vars

\* ------------------------------------------------------------------------
\* Properties of MOV, ADC and SBC, stated on the instruction word at the
\* program counter, the registers and the bus before the call
\* ------------------------------------------------------------------------
\* the operand bytes a mode takes from the instruction stream
ExtraBytes(mode, byte_mode, is_source) ==
    IF mode \in 7 .. 11 THEN 2
    ELSE IF mode = 0 /\ is_source THEN (IF byte_mode THEN 1 ELSE 2)
    ELSE 0

\* the fields of the instruction word at pc, dst<<12 | src<<8 | LH<<7 |
\* W<<6 | op, and where the operand bytes of its source and of its
\* destination lie
Decode(mc, pc) ==
    LET instruction == read_16(mc, pc)
        byte_mode == (instruction \div 64) % 2 = 1
        src == (instruction \div 256) % 16
        src_at == (pc + 2) % ADDRESS_SPACE
    IN  [op |-> instruction % 64,
         byte_mode |-> byte_mode,
         lo_hi |-> (instruction \div 128) % 2 = 1,
         src |-> src,
         dst |-> instruction \div 4096,
         src_at |-> src_at,
         dst_at |-> (src_at + ExtraBytes(src, byte_mode, TRUE))
                        % ADDRESS_SPACE]
AtPc == Decode(memory_controller, cpu.program_counter)

\* the address a memory mode (0x7-0xF) names when its operand word, if it
\* has one, lies at the address at; sums are taken modulo 0x10000
EffectiveAddress(c, mc, mode, at) ==
    LET word == read_16(mc, at)
        x == c.index_x
        y == c.index_y
    IN  CASE mode = 7 -> word
          [] mode = 8 -> (word + x) % ADDRESS_SPACE
          [] mode = 9 -> read_16(mc, word)
          [] mode = 10 -> (read_16(mc, word) + x) % ADDRESS_SPACE
          [] mode = 11 -> read_16(mc, (word + x) % ADDRESS_SPACE)
          [] mode = 12 -> (y + x) % ADDRESS_SPACE
          [] mode = 13 -> read_16(mc, y)
          [] mode = 14 -> (read_16(mc, y) + x) % ADDRESS_SPACE
          [] mode = 15 -> read_16(mc, (y + x) % ADDRESS_SPACE)

\* the value of an operand: the immediate at the address at, a register or
\* in byte mode the half of it that LH selects, or the memory at the
\* effective address
OperandValue(c, mc, d, mode, at) ==
    IF mode = 0
    THEN (IF d.byte_mode THEN read_8(mc, at) ELSE read_16(mc, at))
    ELSE IF mode \in 1 .. 6
         THEN LET r == register(c, Location[mode + 1])
              IN  IF ~d.byte_mode THEN r
                  ELSE IF d.lo_hi THEN r \div 256 ELSE r % 256
    ELSE IF d.byte_mode THEN read_8(mc, EffectiveAddress(c, mc, mode, at))
         ELSE read_16(mc, EffectiveAddress(c, mc, mode, at))

\* the registers and the bus after value has been written to the
\* destination of d, whose operand bytes lie at the address at
Stored(c, mc, d, at, value) ==
    IF d.dst = 0 THEN [cpu |-> c, mc |-> mc]
    ELSE IF d.dst \in 1 .. 6
         THEN LET r == register(c, Location[d.dst + 1])
              IN  [cpu |-> set_register(c, Location[d.dst + 1],
                              IF ~d.byte_mode THEN value
                              ELSE IF d.lo_hi THEN value * 256 + (r % 256)
                              ELSE (r \div 256) * 256 + value),
                   mc |-> mc]
    ELSE LET address == EffectiveAddress(c, mc, d.dst, at)
         IN  [cpu |-> c,
              mc |-> IF d.byte_mode THEN write_8(mc, address, value)
                     ELSE write_16(mc, address, value)]

\* process runs the instruction at the program counter in this step
Executes(ops) == last'.op = "process" /\ Running(cpu) /\ AtPc.op \in ops

\* C21: MOV writes the source value unchanged to the destination and sets
\* Z iff the value is 0, P iff its popcount is even and S from bit 7 of
\* the value, and leaves the C, O and I flags and every register other
\* than the destination and PC unchanged.
C21_MovEffect ==
    [][ Executes({0}) =>
            LET d == AtPc
                value == OperandValue(cpu, memory_controller, d, d.src,
                                      d.src_at)
                after == Stored(cpu, memory_controller, d, d.dst_at, value)
            IN  /\ ~aborted'
                /\ memory_controller' = after.mc
                /\ [cpu' EXCEPT !.program_counter = 0, !.status = 0]
                     = [after.cpu EXCEPT !.program_counter = 0, !.status = 0]
                /\ cpu'.status =
                        128 * ((value \div 128) % 2)
                        + 64 * (IF value = 0 THEN 1 ELSE 0)
                        + 32 * (IF count_ones(value) % 2 = 0 THEN 1 ELSE 0)
                        + (cpu.status % 32) ]_vars

\* C22 as stated: with the instruction MOV dst=A, src=Immediate, W=0
\* followed by the immediate word 0xBEEF, one process call leaves
\* A = 0xBEEF, S = 1, Z = 0, P = 1 and PC advanced by 4.
C22_MovImmediateWord ==
    [][ (/\ Executes({0})
         /\ ~AtPc.byte_mode /\ AtPc.src = 0 /\ AtPc.dst = 1
         /\ read_16(memory_controller, AtPc.src_at) = 48879) =>
            /\ ~aborted'
            /\ cpu'.a = 48879
            /\ get_flag(cpu'.status, 128)
            /\ ~get_flag(cpu'.status, 64)
            /\ get_flag(cpu'.status, 32)
            /\ cpu'.program_counter
                 = (cpu.program_counter + 4) % ADDRESS_SPACE ]_vars

\* C22, amended: the same call leaves A = 0xBEEF, S = 1, Z = 0, PC
\* advanced by 4 and P = 0, since 0xBEEF has thirteen one bits.
C22_MovImmediateWordOddParity ==
    [][ (/\ Executes({0})
         /\ ~AtPc.byte_mode /\ AtPc.src = 0 /\ AtPc.dst = 1
         /\ read_16(memory_controller, AtPc.src_at) = 48879) =>
            /\ ~aborted'
            /\ cpu'.a = 48879
            /\ get_flag(cpu'.status, 128)
            /\ ~get_flag(cpu'.status, 64)
            /\ ~get_flag(cpu'.status, 32)
            /\ cpu'.program_counter
                 = (cpu.program_counter + 4) % ADDRESS_SPACE ]_vars

\* reset(), then one process call on the ROM that starts 00 10 EF BE:
\* A is 0xBEEF, only S is set and PC is 0x8004
C22_Witness ==
    /\ last.op = "process" /\ ticks = 1 /\ ~aborted
    /\ read_16(memory_controller, ROM_FIRST_ADDRESS) = 4096
    /\ read_16(memory_controller, ROM_FIRST_ADDRESS + 2) = 48879
    /\ cpu.a = 48879
    /\ cpu.status = 128
    /\ cpu.program_counter = ROM_FIRST_ADDRESS + 4

\* the values the instruction at the program counter can have read as its
\* destination operand: the register, in byte mode either half of it, or
\* the memory at the destination's effective address
DestinationReads ==
    IF AtPc.dst \in 1 .. 6 /\ AtPc.byte_mode
    THEN {register(cpu, Location[AtPc.dst + 1]) % 256,
          register(cpu, Location[AtPc.dst + 1]) \div 256}
    ELSE {OperandValue(cpu, memory_controller, AtPc, AtPc.dst, AtPc.dst_at)}

\* C23: an ADC of width w with a register or memory destination writes
\* (lhs + source + C_in) mod 2^w, where lhs is the destination operand
\* value it read and C_in the C flag before, and leaves C = 1 exactly when
\* lhs + source + C_in >= 2^w.
C23_AdcSum ==
    [][ (Executes({1}) /\ AtPc.dst # 0 /\ ~aborted') =>
            LET d == AtPc
                modulus == IF d.byte_mode THEN 256 ELSE 65536
                source == OperandValue(cpu, memory_controller, d, d.src,
                                       d.src_at)
                c_in == IF get_flag(cpu.status, 16) THEN 1 ELSE 0
            IN  \E lhs \in DestinationReads :
                    LET after == Stored(cpu, memory_controller, d, d.dst_at,
                                        (lhs + source + c_in) % modulus)
                    IN  /\ memory_controller' = after.mc
                        /\ [cpu' EXCEPT !.program_counter = 0, !.status = 0]
                             = [after.cpu EXCEPT !.program_counter = 0,
                                                 !.status = 0]
                        /\ get_flag(cpu'.status, 16)
                             <=> (lhs + source + c_in >= modulus) ]_vars

\* ADC D, #0xBEEF ran with D = 0xFFFF and C set: D is 0xBEEF and C is set
C23_Witness ==
    /\ last.op = "process" /\ ticks = 1 /\ ~aborted
    /\ read_16(memory_controller, ROM_FIRST_ADDRESS) = Word(1, 0, 0, 0, 4)
    /\ read_16(memory_controller, ROM_FIRST_ADDRESS + 2) = 48879
    /\ cpu.program_counter = ROM_FIRST_ADDRESS + 4
    /\ cpu.a = 32767 /\ cpu.b = 255
    /\ cpu.d = 48879
    /\ get_flag(cpu.status, 16)

\* C24: an SBC of width w with a register or memory destination writes
\* (lhs - source - (1 - C_in)) mod 2^w, where lhs is the destination
\* operand value it read, and leaves C = 1 exactly when no borrow
\* occurred, that is when lhs >= source + (1 - C_in).
C24_SbcDifference ==
    [][ (Executes({2}) /\ AtPc.dst # 0 /\ ~aborted') =>
            LET d == AtPc
                modulus == IF d.byte_mode THEN 256 ELSE 65536
                source == OperandValue(cpu, memory_controller, d, d.src,
                                       d.src_at)
                c_in == IF get_flag(cpu.status, 16) THEN 1 ELSE 0
            IN  \E lhs \in DestinationReads :
                    LET after == Stored(cpu, memory_controller, d, d.dst_at,
                                        (lhs - source - (1 - c_in)) % modulus)
                    IN  /\ memory_controller' = after.mc
                        /\ [cpu' EXCEPT !.program_counter = 0, !.status = 0]
                             = [after.cpu EXCEPT !.program_counter = 0,
                                                 !.status = 0]
                        /\ get_flag(cpu'.status, 16)
                             <=> (lhs >= source + (1 - c_in)) ]_vars

\* SBC D, #0xBEEF ran with D = 0xFFFF and C clear: D is 0xFFFF - 0xBEEF - 1
\* and C is set, since nothing was borrowed
C24_Witness ==
    /\ last.op = "process" /\ ticks = 1 /\ ~aborted
    /\ read_16(memory_controller, ROM_FIRST_ADDRESS) = Word(2, 0, 0, 0, 4)
    /\ read_16(memory_controller, ROM_FIRST_ADDRESS + 2) = 48879
    /\ cpu.program_counter = ROM_FIRST_ADDRESS + 4
    /\ cpu.a = 4660 /\ cpu.b = 255
    /\ cpu.d = 16655
    /\ get_flag(cpu.status, 16)

\* C25: for ADC and SBC in both widths the O flag after the instruction is
\* 1 exactly when the most significant bit (of the operation width) of lhs
\* equals that of the source operand and that of the result differs from
\* that of lhs.
C25_OverflowFlag ==
    [][ (Executes({1, 2}) /\ AtPc.dst # 0 /\ ~aborted') =>
            LET d == AtPc
                modulus == IF d.byte_mode THEN 256 ELSE 65536
                sign(value) == value \div (modulus \div 2)
                source == OperandValue(cpu, memory_controller, d, d.src,
                                       d.src_at)
                c_in == IF get_flag(cpu.status, 16) THEN 1 ELSE 0
            IN  \E lhs \in DestinationReads :
                    LET result == IF d.op = 1
                                  THEN (lhs + source + c_in) % modulus
                                  ELSE (lhs - source - (1 - c_in)) % modulus
                        after == Stored(cpu, memory_controller, d, d.dst_at,
                                        result)
                    IN  /\ memory_controller' = after.mc
                        /\ [cpu' EXCEPT !.program_counter = 0, !.status = 0]
                             = [after.cpu EXCEPT !.program_counter = 0,
                                                 !.status = 0]
                        /\ get_flag(cpu'.status, 8)
                             <=> (/\ sign(lhs) = sign(source)
                                  /\ sign(result) # sign(lhs)) ]_vars

\* SBC byte (LH = 0) A, #0x42 ran with A = 0x1234 and C clear: the low
\* byte is 0x34 - 0x42 - 1 = 0xF1 and O is set, both operands having a
\* clear bit 7 and the result a set one
C25_Witness ==
    /\ last.op = "process" /\ ticks = 1 /\ ~aborted
    /\ read_16(memory_controller, ROM_FIRST_ADDRESS) = Word(2, 1, 0, 0, 1)
    /\ read_8(memory_controller, ROM_FIRST_ADDRESS + 2) = 66
    /\ cpu.program_counter = ROM_FIRST_ADDRESS + 3
    /\ cpu.a = 4849
    /\ get_flag(cpu.status, 8)
    /\ ~get_flag(cpu.status, 16)

\* C26: ADC of two 16-bit values takes S from bit 7 of the result, not bit
\* 15: with A = 0x7FFF, C = 0 and immediate source 0x0001, one ADC
\* word-mode instruction leaves A = 0x8000, C = 0, O = 1 and S = 0.
C26_AdcSignFromBit7 ==
    [][ (/\ Executes({1})
         /\ ~AtPc.byte_mode /\ AtPc.src = 0 /\ AtPc.dst = 1
         /\ read_16(memory_controller, AtPc.src_at) = 1
         /\ cpu.a = 32767 /\ ~get_flag(cpu.status, 16)) =>
            /\ ~aborted'
            /\ cpu'.a = 32768
            /\ ~get_flag(cpu'.status, 16)
            /\ get_flag(cpu'.status, 8)
            /\ ~get_flag(cpu'.status, 128) ]_vars

\* reset(), MOV A, #0x7FFF and ADC A, #0x0001 have run: A is 0x8000 and of
\* the flags only O is set
C26_Witness ==
    /\ last.op = "process" /\ ticks = 2 /\ ~aborted
    /\ read_16(memory_controller, ROM_FIRST_ADDRESS + 4)
            = Word(1, 0, 0, 0, 1)
    /\ read_16(memory_controller, ROM_FIRST_ADDRESS + 6) = 1
    /\ cpu.program_counter = ROM_FIRST_ADDRESS + 8
    /\ cpu.a = 32768
    /\ cpu.status = 8

\* C27: in byte mode every register operand of MOV, ADC and SBC is read
\* from and written to the half LH selects; for ADC and SBC with a register
\* destination and LH = 1 the destination value used in the arithmetic is
\* the register's high byte and the result is stored to the high byte.
C27_ByteHalves ==
    [][ (/\ Executes({0, 1, 2}) /\ ~aborted'
         /\ AtPc.byte_mode
         /\ (AtPc.src \in 1 .. 6 \/ AtPc.dst \in 1 .. 6)) =>
            LET d == AtPc
                source == OperandValue(cpu, memory_controller, d, d.src,
                                       d.src_at)
                lhs == OperandValue(cpu, memory_controller, d, d.dst,
                                    d.dst_at)
                c_in == IF get_flag(cpu.status, 16) THEN 1 ELSE 0
                value == CASE d.op = 0 -> source
                           [] d.op = 1 -> (lhs + source + c_in) % 256
                           [] d.op = 2 -> (lhs - source - (1 - c_in)) % 256
                after == Stored(cpu, memory_controller, d, d.dst_at, value)
            IN  /\ memory_controller' = after.mc
                /\ [cpu' EXCEPT !.program_counter = 0, !.status = 0]
                     = [after.cpu EXCEPT !.program_counter = 0,
                                         !.status = 0] ]_vars

\* C28: a byte-mode write to a register half leaves the other half of that
\* register unchanged, for all six registers and both halves; MOV byte,
\* LH = 1, dst = A, immediate 0x42 turns A = 0x1234 into 0x4234.
C28_OtherHalfKept ==
    [][ (Executes({0, 1, 2}) /\ AtPc.byte_mode /\ AtPc.dst \in 1 .. 6) =>
            LET d == AtPc
                before == register(cpu, Location[d.dst + 1])
                after == register(cpu', Location[d.dst + 1])
                source == OperandValue(cpu, memory_controller, d, d.src,
                                       d.src_at)
            IN  /\ IF d.lo_hi THEN after % 256 = before % 256
                   ELSE after \div 256 = before \div 256
                /\ (d.op = 0 /\ ~aborted') =>
                        IF d.lo_hi THEN after \div 256 = source
                        ELSE after % 256 = source
                /\ (/\ d.op = 0 /\ d.lo_hi /\ d.dst = 1 /\ d.src = 0
                    /\ source = 66 /\ cpu.a = 4660) =>
                        ~aborted' /\ cpu'.a = 16948 ]_vars

\* MOV byte (LH = 1) A, #0x42 ran with A = 0x1234: A is 0x4234
C28_Witness ==
    /\ last.op = "process" /\ ticks = 1 /\ ~aborted
    /\ read_16(memory_controller, ROM_FIRST_ADDRESS) = Word(0, 1, 1, 0, 1)
    /\ read_8(memory_controller, ROM_FIRST_ADDRESS + 2) = 66
    /\ cpu.program_counter = ROM_FIRST_ADDRESS + 3
    /\ cpu.a = 16948 /\ cpu.b = 255

\* C29: MOV, ADC and SBC consume the operand bytes after the instruction
\* word source first, then destination: the source's extra bytes are read
\* at PC+2, the destination's directly after them, and after the call PC
\* has advanced by 2 + extra(src) + extra(dst), where extra is 2 for modes
\* 0x7-0xB, 0 for register modes and modes 0xC-0xF, and for an Immediate
\* source 2 in word mode and 1 in byte mode.
C29_OperandOrder ==
    [][ Executes({0, 1, 2}) =>
            LET d == AtPc
                source == OperandValue(cpu, memory_controller, d, d.src,
                                       d.src_at)
            IN  /\ cpu'.program_counter =
                        (cpu.program_counter + 2
                            + ExtraBytes(d.src, d.byte_mode, TRUE)
                            + ExtraBytes(d.dst, d.byte_mode, FALSE))
                        % ADDRESS_SPACE
                /\ (d.op = 0 /\ ~aborted') =>
                        memory_controller' =
                            Stored(cpu, memory_controller, d, d.dst_at,
                                   source).mc ]_vars

\* C30: MOV, ADC and SBC with destination mode Immediate write no register
\* other than PC and no memory cell, while the source operand is still
\* resolved and its extra bytes are still consumed: PC advances past them.
C30_ImmediateDestination ==
    [][ (Executes({0, 1, 2}) /\ AtPc.dst = 0) =>
            LET d == AtPc
                source == OperandValue(cpu, memory_controller, d, d.src,
                                       d.src_at)
            IN  /\ memory_controller' = memory_controller
                /\ [cpu' EXCEPT !.program_counter = 0, !.status = 0]
                     = [cpu EXCEPT !.program_counter = 0, !.status = 0]
                /\ cpu'.program_counter =
                        (cpu.program_counter + 2
                            + ExtraBytes(d.src, d.byte_mode, TRUE))
                        % ADDRESS_SPACE
                \* a MOV shows the source it resolved in Z
                /\ (d.op = 0 /\ ~aborted') =>
                        (get_flag(cpu'.status, 64) <=> source = 0) ]_vars

\* ------------------------------------------------------------------------
\* Properties of address arithmetic and of process as a whole
\* ------------------------------------------------------------------------
\* C31: all effective-address computations wrap modulo 0x10000: for the
\* modes abs,X / (abs),X / (abs,X) / Y,X / (Y),X / (Y,X) with an index sum
\* above 0xFFFF the access goes to the sum modulo 0x10000 and the
\* instruction completes normally, and PC wraps to 0x0000/0x0001 when a
\* fetch advances it past 0xFFFF.
C31_AddressesWrap ==
    [][ (last'.op = "process" /\ Running(cpu)) =>
            LET d == AtPc
                has_operands == d.op \in {0, 1, 2}
                \* the index sum of a mode before it is reduced
                sum(mode, at) ==
                    CASE mode \in {8, 11} ->
                            read_16(memory_controller, at) + cpu.index_x
                      [] mode = 10 ->
                            read_16(memory_controller,
                                    read_16(memory_controller, at))
                                + cpu.index_x
                      [] mode \in {12, 15} -> cpu.index_y + cpu.index_x
                      [] mode = 14 ->
                            read_16(memory_controller, cpu.index_y)
                                + cpu.index_x
                      [] OTHER -> 0
                length == IF has_operands
                          THEN 2 + ExtraBytes(d.src, d.byte_mode, TRUE)
                                 + ExtraBytes(d.dst, d.byte_mode, FALSE)
                          ELSE 2
                source == OperandValue(cpu, memory_controller, d, d.src,
                                       d.src_at)
                after == Stored(cpu, memory_controller, d, d.dst_at, source)
            IN  (\/ cpu.program_counter + length >= ADDRESS_SPACE
                 \/ /\ has_operands
                    /\ \/ sum(d.src, d.src_at) >= ADDRESS_SPACE
                       \/ sum(d.dst, d.dst_at) >= ADDRESS_SPACE) =>
                    /\ ~aborted'
                    /\ d.op # 49 =>
                            cpu'.program_counter =
                                (cpu.program_counter + length) % ADDRESS_SPACE
                    /\ d.op = 0 =>
                            /\ memory_controller' = after.mc
                            /\ [cpu' EXCEPT !.program_counter = 0,
                                            !.status = 0]
                                 = [after.cpu EXCEPT !.program_counter = 0,
                                                     !.status = 0] ]_vars

\* C32: from any state reached by reset(), with any memory contents and
\* register values, every call process(nmi, irq) completes without
\* aborting, including when PC is 0xFFFE or 0xFFFF, when an index sum
\* exceeds 0xFFFF, and in Waiting when the IRQ table base plus 2 * irq
\* exceeds 0xFFFF.
C32_ProcessNeverAborts ==
    [][ last'.op = "process" => ~aborted' ]_vars

\* ------------------------------------------------------------------------
\* The instruction decoder on its own: a word is built from its fields,
\* then decoded as process decodes the word it has fetched
\* ------------------------------------------------------------------------
\* every word dst<<12 | src<<8 | LH<<7 | W<<6 | op of the five operations;
\* the call record keeps the fields the word was built from
DecodeInit ==
    /\ \E operation \in {0, 1, 2, 48, 49}, byte_mode \in 0 .. 1,
          lo_hi \in 0 .. 1, source \in 0 .. 15, destination \in 0 .. 15 :
            last = Call("encode",
                        <<operation, byte_mode, lo_hi, source, destination>>,
                        Ok(Word(operation, byte_mode, lo_hi, source,
                                destination)))
    /\ memory_controller = MemoryController_new
    /\ covered = [i \in {} |-> {}]
    /\ aborted = FALSE
    /\ cpu = CPU_new
    /\ overflow_checks = FALSE
    /\ ticks = 0

\* the five decoding statements of process
DecodeWord ==
    /\ last.op = "encode"
    /\ LET instruction == last.ret.val
       IN  last' = Call("decode", <<instruction>> \o last.args,
                Ok([operation |->
                        get_operation_from_instruction(instruction),
                    byte_mode |-> (instruction \div 64) % 2 = 1,
                    lo_hi |-> (instruction \div 128) % 2 = 1,
                    destination |->
                        get_destination_from_instruction(instruction),
                    source |-> get_source_from_instruction(instruction)]))
    /\ UNCHANGED <<memory_controller, covered, aborted, cpu,
                   overflow_checks, ticks>>

DecodeSpec == DecodeInit /\ [][DecodeWord]_vars

\* C33: decoding is the inverse of the documented encoding: for every word
\* built as dst<<12 | src<<8 | LH<<7 | W<<6 | op with dst, src in 0..15,
\* LH, W in 0..1 and op in {0x00, 0x01, 0x02, 0x30, 0x31}, the decoder
\* yields exactly that operation, width, half-select, destination mode and
\* source mode, and the same mode code maps to the same location whether
\* it is in the src or the dst field.
C33_DecodeInvertsEncode ==
    last.op = "decode" =>
        LET operation == last.args[2]
            byte_mode == last.args[3]
            lo_hi == last.args[4]
            source == last.args[5]
            destination == last.args[6]
            decoded == last.ret.val
        IN  /\ last.args[1] = destination * 4096 + source * 256
                                + lo_hi * 128 + byte_mode * 64 + operation
            /\ decoded.operation =
                    CASE operation = 0 -> "Mov"
                      [] operation = 1 -> "Adc"
                      [] operation = 2 -> "Sbc"
                      [] operation = 48 -> "Stp"
                      [] operation = 49 -> "Rst"
            /\ decoded.byte_mode <=> byte_mode = 1
            /\ decoded.lo_hi <=> lo_hi = 1
            /\ decoded.destination = Location[destination + 1]
            /\ decoded.source = Location[source + 1]
            /\ source = destination <=> decoded.source = decoded.destination

\* the word 0x5AF1 (RST, W = 1, LH = 1, src = 0xA, dst = 0x5) was decoded
C33_Witness ==
    /\ last.op = "decode"
    /\ last.args = <<23281, 49, 1, 1, 10, 5>>
    /\ last.ret.val = [operation |-> "Rst", byte_mode |-> TRUE,
                       lo_hi |-> TRUE, destination |-> "Idx",
                       source |-> "IndirectIndexedAddress"]

\* ------------------------------------------------------------------------
\* The CPU driven by reset() and process() alone, its public fields never
\* written from outside
\* ------------------------------------------------------------------------
RunSpec ==
    CpuInit /\ [][ \/ CpuReset
                   \/ \E nmi \in BOOLEAN, irq \in Irqs : Process(nmi, irq)
                ]_vars

\* C34: in every state reachable from cpu.new() by any sequence of reset()
\* and process(nmi, irq) calls the wait latch is false, so the Waiting
\* state and the NMI/IRQ vector loads are never reached: the I flag, which
\* only those loads set, stays clear.
C34_NeverWaiting ==
    /\ ~cpu.waiting_for_interrupt
    /\ ~get_flag(cpu.status, 4)

\* two process calls with NMI and IRQ 3 asserted have run after reset():
\* the CPU is running its program, not the NMI or the IRQ handler
C34_Witness ==
    /\ last.op = "process" /\ last.args = <<TRUE, Some(3)>>
    /\ ticks = 2 /\ ~aborted
    /\ Running(cpu)
    /\ cpu.program_counter \notin {NMI_HANDLER, IRQ_HANDLER}
    /\ cpu.program_counter > ROM_FIRST_ADDRESS

\* ------------------------------------------------------------------------
\* Properties of the addressing modes, of interrupts and of the devices
\* under the CPU
\* ------------------------------------------------------------------------
\* C35: each memory addressing mode resolves the effective address of the
\* mode table, identically as source and as destination: 0x7 [imm16],
\* 0x8 [imm16+X], 0x9 [[imm16]], 0xA [[imm16]+X], 0xB [[imm16+X]],
\* 0xC [Y+X], 0xD [[Y]], 0xE [[Y]+X], 0xF [[Y+X]], the inner dereference
\* being a 16-bit little-endian read and the final access having the
\* instruction's width; with X = 4, Y = 0x10, the word 0x0120 at 0x0014 and
\* the byte 0x77 at 0x0120, MOV byte src=0xF dst=B LH=0 sets B's low byte
\* to 0x77.
C35_AddressingModes ==
    [][ (/\ Executes({0, 1, 2}) /\ ~aborted'
         /\ (AtPc.src \in 7 .. 15 \/ AtPc.dst \in 7 .. 15)) =>
            LET d == AtPc
                modulus == IF d.byte_mode THEN 256 ELSE 65536
                source == OperandValue(cpu, memory_controller, d, d.src,
                                       d.src_at)
                c_in == IF get_flag(cpu.status, 16) THEN 1 ELSE 0
            IN  /\ \E lhs \in DestinationReads :
                    LET value ==
                            CASE d.op = 0 -> source
                              [] d.op = 1 -> (lhs + source + c_in) % modulus
                              [] d.op = 2 ->
                                    (lhs - source - (1 - c_in)) % modulus
                        after == Stored(cpu, memory_controller, d, d.dst_at,
                                        value)
                    IN  /\ memory_controller' = after.mc
                        /\ [cpu' EXCEPT !.program_counter = 0, !.status = 0]
                             = [after.cpu EXCEPT !.program_counter = 0,
                                                 !.status = 0]
                /\ (/\ d.op = 0 /\ d.byte_mode /\ ~d.lo_hi
                    /\ d.src = 15 /\ d.dst = 2
                    /\ cpu.index_x = 4 /\ cpu.index_y = 16
                    /\ read_16(memory_controller, 20) = 288
                    /\ read_8(memory_controller, 288) = 119) =>
                        cpu'.b % 256 = 119 ]_vars

\* MOV byte B, [[Y+X]] ran with X = 4, Y = 0x10, B = 0x00FF, the word
\* 0x0120 at 0x0014 and the byte 0x77 at 0x0120: B is 0x0077
C35_Witness ==
    /\ last.op = "process" /\ ticks = 1 /\ ~aborted
    /\ read_16(memory_controller, ROM_FIRST_ADDRESS) = Word(0, 1, 0, 15, 2)
    /\ cpu.program_counter = ROM_FIRST_ADDRESS + 2
    /\ cpu.index_x = 4 /\ cpu.index_y = 16
    /\ read_16(memory_controller, 20) = 288
    /\ read_8(memory_controller, 288) = 119
    /\ cpu.b = 119

\* C36: in Waiting, when NMI and an IRQ are asserted in the same process
\* call, the NMI takes precedence: after the call the wait latch is clear,
\* I is set and PC holds the NMI vector word, never the IRQ handler
\* address, whatever the I flag was before the call.
C36_NmiBeforeIrq ==
    [][ (/\ last'.op = "process" /\ Waiting(cpu)
         /\ last'.args[1] /\ last'.args[2] # None) =>
            LET entry == WordAt(memory_controller, IRQ_VECTOR)
                            + 2 * last'.args[2][1]
                nmi_handler == WordAt(memory_controller, NMI_VECTOR)
            IN  /\ ~aborted'
                /\ ~cpu'.waiting_for_interrupt
                /\ get_flag(cpu'.status, 4)
                /\ cpu'.program_counter = nmi_handler
                /\ (/\ entry + 1 < ADDRESS_SPACE
                    /\ WordAt(memory_controller, entry) # nmi_handler) =>
                        cpu'.program_counter
                            # WordAt(memory_controller, entry) ]_vars

\* process(true, Some(255)) woke a waiting CPU whose I flag was clear, on
\* the board whose IRQ table entry 255 lies past 0xFFFF: the call returned
\* with PC at the NMI handler
C36_Witness ==
    /\ last.op = "process" /\ last.args = <<TRUE, Some(255)>>
    /\ ticks = 1 /\ ~aborted
    /\ read_16(memory_controller, IRQ_VECTOR) = 65280
    /\ Running(cpu)
    /\ cpu.program_counter = NMI_HANDLER
    /\ cpu.status = 4

\* C37: the contents of every mapped ROM device are the same after any
\* sequence of process() and reset() calls as before it: no instruction
\* (MOV/ADC/SBC with a destination address inside ROM, RST) and no reset
\* alters a ROM byte.
C37_RomKeepsItsBytes ==
    [][ last'.op \in {"process", "cpu_reset"} =>
            /\ Len(memory_controller'.mappings)
                    = Len(memory_controller.mappings)
            /\ \A i \in 1 .. Len(memory_controller.mappings) :
                  memory_controller.mappings[i].device.kind = "ROM" =>
                        memory_controller'.mappings[i].device
                            = memory_controller.mappings[i].device ]_vars

\* MOV B, [Y+X]; MOV [Y+X], #0xBEEF; MOV C, [Y+X] have run with X = 4 and
\* Y = 0x10 on the board whose block 0 is a ROM: 0x0014 still holds 0x0120,
\* which is what C has read after the write
C37_Witness ==
    /\ last.op = "process" /\ ticks = 3 /\ ~aborted
    /\ memory_controller.mappings[1].device.kind = "ROM"
    /\ block_of(memory_controller, 20) = Some(0)
    /\ read_16(memory_controller, ROM_FIRST_ADDRESS + 2)
            = Word(0, 0, 0, 0, 12)
    /\ read_16(memory_controller, ROM_FIRST_ADDRESS + 4) = 48879
    /\ cpu.index_x = 4 /\ cpu.index_y = 16
    /\ read_16(memory_controller, 20) = 288
    /\ cpu.b = 288 /\ cpu.c = 288

\* C38: reset() resets the devices before it latches PC: when the reset
\* vector bytes 0xFFFE/0xFFFF lie in a mapped RAM device, PC after reset()
\* is 0x0000 whatever was stored there before, and when they lie in ROM, PC
\* is the poked word.
C38_ResetLatchesAfterDevices ==
    [][ last'.op = "cpu_reset" =>
            /\ (/\ DeviceAt(memory_controller, "RAM", RESET_VECTOR) # 0
                /\ DeviceAt(memory_controller, "RAM", RESET_VECTOR + 1) # 0) =>
                    /\ ~aborted'
                    /\ cpu'.program_counter = 0
            /\ (/\ DeviceAt(memory_controller, "ROM", RESET_VECTOR) # 0
                /\ DeviceAt(memory_controller, "ROM", RESET_VECTOR + 1) # 0) =>
                    /\ ~aborted'
                    /\ cpu'.program_counter
                            = WordAt(memory_controller, RESET_VECTOR) ]_vars

\* reset() has run on the board whose block 15 is a RAM that held 0x0800
\* at 0xFFFE: PC is 0 and the NOP at 0x0000 has then been executed
C38_Witness ==
    /\ last.op = "process" /\ ticks = 1 /\ ~aborted
    /\ DeviceAt(memory_controller, "RAM", RESET_VECTOR) # 0
    /\ DeviceAt(memory_controller, "RAM", RESET_VECTOR + 1) # 0
    /\ read_16(memory_controller, RESET_VECTOR) = 0
    /\ read_16(memory_controller, 0) = Word(3, 0, 0, 0, 0)
    /\ cpu.program_counter = 2

\* C39: ADC and SBC with destination mode Immediate leave the whole status
\* register (S, Z, P, C, O, I) unchanged, whereas MOV with destination
\* Immediate still updates S, Z and P from the source value.
C39_ImmediateDestinationFlags ==
    [][ (Executes({0, 1, 2}) /\ AtPc.dst = 0) =>
            LET d == AtPc
                source == OperandValue(cpu, memory_controller, d, d.src,
                                       d.src_at)
            IN  /\ d.op \in {1, 2} => cpu'.status = cpu.status
                /\ (d.op = 0 /\ ~aborted') =>
                        cpu'.status =
                            128 * ((source \div 128) % 2)
                            + 64 * (IF source = 0 THEN 1 ELSE 0)
                            + 32 * (IF count_ones(source) % 2 = 0
                                    THEN 1 ELSE 0)
                            + (cpu.status % 32) ]_vars

\* ADC byte #imm, [[Y+X]] ran with every flag set: every flag is still set,
\* S and Z among them, which no value sets together
C39_Witness ==
    /\ last.op = "process" /\ ticks = 1 /\ ~aborted
    /\ read_16(memory_controller, ROM_FIRST_ADDRESS) = Word(1, 1, 1, 15, 0)
    /\ cpu.program_counter = ROM_FIRST_ADDRESS + 2
    /\ cpu.status = 252

\* ------------------------------------------------------------------------
\* A property of the block table under map_device and unmap_device
\* ------------------------------------------------------------------------
\* C40: after any sequence of map and unmap calls with in-range arguments,
\* every non-empty block-table slot b holds an index smaller than the
\* number of live mappings and that mapping's base offset is at most
\* b * 4096, so bus read/write dispatch never indexes past the mapping
\* collection and the address translation a - base never underflows.
C40_SlotsAreDispatchable ==
    ~aborted =>
        \A b \in 0 .. (MAP_BLOCKS - 1) :
            LET slot == memory_controller.blocks[b]
            IN  slot # None =>
                    /\ slot[1] < Len(memory_controller.mappings)
                    /\ memory_controller.mappings[slot[1] + 1].offset
                            <= b * MAP_BLOCK_SIZE
                    /\ \A a \in BlockEnds(b) :
                            ~bus_panics(memory_controller, a)

\* unmap_device(0) moved the last of three mappings, one of two blocks,
\* into slot 0 of the vector: its second block names index 0 and lies
\* above its base
C40_Witness ==
    /\ last.op = "unmap_device" /\ last.ret.ok
    /\ last.args[1] = 0
    /\ Len(memory_controller.mappings) = 2
    /\ \E b \in 1 .. (MAP_BLOCKS - 1) :
          /\ memory_controller.blocks[b] = Some(0)
          /\ memory_controller.blocks[b - 1] = Some(0)
          /\ memory_controller.mappings[1].offset = (b - 1) * MAP_BLOCK_SIZE
          /\ b > 1

====
